---- MODULE Spec2Model ----
(***************************************************************************)
(* Model of italian_tax_validators: the Codice Fiscale validator and       *)
(* generator, the Partita IVA validator and the municipality directory.    *)
(*                                                                         *)
(* Encoding.  A Python str is a sequence of one-character strings          *)
(* ("H501" is <<"H","5","0","1">>).  An Optional value is None == <<>> or  *)
(* Some(x) == <<x>>.  A datetime.date is a record [year, month, day].      *)
(* A call's outcome is [exc, val]: exc = "none" and val the returned       *)
(* value, or exc the name of the exception that left the call.             *)
(***************************************************************************)
EXTENDS Integers, Sequences, FiniteSets, TLC

VARIABLES
    today,          \* what date.today() returns now
    call_date,      \* what it returned when the last validate call began
    midnights,      \* how many times the date has changed in the session
    cf_validator,   \* _ValidatorInstances._cf_validator
    piva_validator, \* _ValidatorInstances._piva_validator
    cf_generator,   \* _GeneratorInstances._cf_generator
    op,             \* the call made last
    args,           \* its arguments
    outcome,        \* its outcome
    prev,           \* the call before it and that call's outcome
    threads         \* the concurrent callers: where each is in its call

vars == <<today, call_date, midnights, cf_validator, piva_validator, cf_generator, op, args, outcome, prev, threads>>

----------------------------------------------------------------------------
(* Python values *)

None == <<>>

Some(x) == <<x>>

Return(v) == [exc |-> "none", val |-> v]

Raise(e) == [exc |-> e, val |-> None]

Min(a, b) == IF a < b THEN a ELSE b

----------------------------------------------------------------------------
(* Characters and str methods, over the characters the model draws from *)

ASCII_UPPERCASE ==
    << "A", "B", "C", "D", "E", "F", "G", "H", "I", "J", "K", "L", "M",
       "N", "O", "P", "Q", "R", "S", "T", "U", "V", "W", "X", "Y", "Z" >>

ASCII_LOWERCASE ==
    << "a", "b", "c", "d", "e", "f", "g", "h", "i", "j", "k", "l", "m",
       "n", "o", "p", "q", "r", "s", "t", "u", "v", "w", "x", "y", "z" >>

ASCII_DIGITS == << "0", "1", "2", "3", "4", "5", "6", "7", "8", "9" >>

Range(s) == { s[i] : i \in DOMAIN s }

UpperLetters == Range(ASCII_UPPERCASE)

LowerLetters == Range(ASCII_LOWERCASE)

DigitChars == Range(ASCII_DIGITS)

\* the characters str.strip() removes
WhitespaceChars == { " ", "\t", "\n" }

IndexOf(s, c) == CHOOSE i \in DOMAIN s : s[i] = c

\* chr(ord("A") + n), 0 <= n <= 25
chr_from_A(n) == ASCII_UPPERCASE[n + 1]

\* the accented vowels of Italian names
ACCENTED_UPPERCASE == << "À", "È", "Ì", "Ò", "Ù" >>

ACCENTED_LOWERCASE == << "à", "è", "ì", "ò", "ù" >>

char_upper(c) ==
    IF c \in LowerLetters THEN ASCII_UPPERCASE[IndexOf(ASCII_LOWERCASE, c)]
    ELSE IF c \in Range(ACCENTED_LOWERCASE) THEN ACCENTED_UPPERCASE[IndexOf(ACCENTED_LOWERCASE, c)]
    ELSE c

\* str.upper()
str_upper(s) == [ i \in 1..Len(s) |-> char_upper(s[i]) ]

RECURSIVE str_lstrip(_)
str_lstrip(s) ==
    IF s # <<>> /\ Head(s) \in WhitespaceChars THEN str_lstrip(Tail(s)) ELSE s

RECURSIVE str_rstrip(_)
str_rstrip(s) ==
    IF s # <<>> /\ s[Len(s)] \in WhitespaceChars
    THEN str_rstrip(SubSeq(s, 1, Len(s) - 1))
    ELSE s

\* str.strip()
str_strip(s) == str_rstrip(str_lstrip(s))

RECURSIVE str_remove(_, _)
\* s.replace(c, "") for a one-character c
str_remove(s, c) ==
    IF s = <<>> THEN <<>>
    ELSE IF Head(s) = c THEN str_remove(Tail(s), c)
    ELSE <<Head(s)>> \o str_remove(Tail(s), c)

\* s[a:b] with 0 <= a <= b (0-based, end excluded, clipped to the length)
str_slice(s, a, b) == IF a >= Min(b, Len(s)) THEN <<>> ELSE SubSeq(s, a + 1, Min(b, Len(s)))

\* s.startswith(p)
str_startswith(s, p) == Len(s) >= Len(p) /\ SubSeq(s, 1, Len(p)) = p

\* dict.get(key, default)
dict_get(d, key, default) == IF key \in DOMAIN d THEN d[key] ELSE default

RECURSIVE int_of_digits(_)
int_of_digits(s) ==
    IF s = <<>> THEN 0
    ELSE 10 * int_of_digits(SubSeq(s, 1, Len(s) - 1)) + (IndexOf(ASCII_DIGITS, s[Len(s)]) - 1)

\* int(s): surrounding whitespace is ignored, one sign may come first, single
\* underscores may stand between the decimal digits; anything else is a
\* ValueError.  int_of_signed: the text after the sign, negated or not.
int_of_signed(negative, body) ==
    IF /\ body # <<>>
       /\ \A i \in DOMAIN body : body[i] \in DigitChars \cup { "_" }
       /\ body[1] # "_"
       /\ body[Len(body)] # "_"
       /\ \A i \in 1..(Len(body) - 1) : ~(body[i] = "_" /\ body[i + 1] = "_")
    THEN Return((IF negative THEN -1 ELSE 1) * int_of_digits(str_remove(body, "_")))
    ELSE Raise("ValueError")

\* the sign of the stripped text t, and what follows the sign
int_with_sign(t) ==
    int_of_signed(t # <<>> /\ t[1] = "-",
                  IF t # <<>> /\ t[1] \in { "+", "-" } THEN Tail(t) ELSE t)

int_of_str(s) == int_with_sign(str_strip(s))

----------------------------------------------------------------------------
(* datetime.date *)

is_leap(year) == (year % 4 = 0 /\ year % 100 # 0) \/ year % 400 = 0

days_in_month(year, month) ==
    IF month = 2 THEN (IF is_leap(year) THEN 29 ELSE 28)
    ELSE IF month \in {4, 6, 9, 11} THEN 30
    ELSE 31

\* date(year, month, day): ValueError unless it is a calendar date
date(year, month, day) ==
    IF /\ year \in 1..9999
       /\ month \in 1..12
       /\ day \in 1..days_in_month(year, month)
    THEN Return([year |-> year, month |-> month, day |-> day])
    ELSE Raise("ValueError")

\* the date that date.today() returns once midnight has passed on d
tomorrow(d) ==
    IF d.day < days_in_month(d.year, d.month) THEN [d EXCEPT !.day = d.day + 1]
    ELSE IF d.month < 12 THEN [d EXCEPT !.month = d.month + 1, !.day = 1]
    ELSE [year |-> d.year + 1, month |-> 1, day |-> 1]

----------------------------------------------------------------------------
(* comuni.py *)

\* the items of the dict, in insertion order: <<code, name, province>>
CODICI_CATASTALI ==
    << << <<"A","9","4","4">>, <<"B","A","R","I">>, <<"B","A">> >>,
       << <<"A","9","5","2">>, <<"B","A","R","L","E","T","T","A">>, <<"B","T">> >>,
       << <<"B","3","5","4">>, <<"B","O","L","O","G","N","A">>, <<"B","O">> >>,
       << <<"B","1","5","7">>, <<"B","O","L","Z","A","N","O">>, <<"B","Z">> >>,
       << <<"B","1","8","0">>, <<"B","R","E","S","C","I","A">>, <<"B","S">> >>,
       << <<"B","4","2","8">>, <<"C","A","G","L","I","A","R","I">>, <<"C","A">> >>,
       << <<"B","9","6","3">>, <<"C","A","M","P","O","B","A","S","S","O">>, <<"C","B">> >>,
       << <<"C","3","5","1">>, <<"C","A","T","A","N","Z","A","R","O">>, <<"C","Z">> >>,
       << <<"D","6","1","2">>, <<"F","I","R","E","N","Z","E">>, <<"F","I">> >>,
       << <<"E","0","4","1">>, <<"G","E","N","O","V","A">>, <<"G","E">> >>,
       << <<"E","6","2","5">>, <<"L","'","A","Q","U","I","L","A">>, <<"A","Q">> >>,
       << <<"E","4","6","3">>, <<"L","A","T","I","N","A">>, <<"L","T">> >>,
       << <<"F","2","0","5">>, <<"M","I","L","A","N","O">>, <<"M","I">> >>,
       << <<"F","8","3","9">>, <<"N","A","P","O","L","I">>, <<"N","A">> >>,
       << <<"G","2","7","3">>, <<"P","A","L","E","R","M","O">>, <<"P","A">> >>,
       << <<"G","3","3","7">>, <<"P","A","R","M","A">>, <<"P","R">> >>,
       << <<"G","4","7","8">>, <<"P","E","R","U","G","I","A">>, <<"P","G">> >>,
       << <<"G","4","8","2">>, <<"P","E","S","A","R","O">>, <<"P","U">> >>,
       << <<"G","5","3","5">>, <<"P","I","A","C","E","N","Z","A">>, <<"P","C">> >>,
       << <<"G","7","0","2">>, <<"P","O","T","E","N","Z","A">>, <<"P","Z">> >>,
       << <<"H","2","2","3">>, <<"R","E","G","G","I","O"," ","C","A","L","A","B","R","I","A">>, <<"R","C">> >>,
       << <<"H","2","2","4">>, <<"R","E","G","G","I","O"," ","E","M","I","L","I","A">>, <<"R","E">> >>,
       << <<"H","5","0","1">>, <<"R","O","M","A">>, <<"R","M">> >>,
       << <<"H","7","0","3">>, <<"S","A","L","E","R","N","O">>, <<"S","A">> >>,
       << <<"I","4","5","2">>, <<"T","O","R","I","N","O">>, <<"T","O">> >>,
       << <<"I","7","2","6">>, <<"T","R","E","N","T","O">>, <<"T","N">> >>,
       << <<"I","4","0","3">>, <<"T","R","I","E","S","T","E">>, <<"T","S">> >>,
       << <<"L","2","1","9">>, <<"U","D","I","N","E">>, <<"U","D">> >>,
       << <<"L","7","3","6">>, <<"V","E","N","E","Z","I","A">>, <<"V","E">> >>,
       << <<"L","7","8","1">>, <<"V","E","R","O","N","A">>, <<"V","R">> >>,
       << <<"A","2","7","1">>, <<"A","N","C","O","N","A">>, <<"A","N">> >>,
       << <<"A","5","1","5">>, <<"A","O","S","T","A">>, <<"A","O">> >>,
       << <<"A","0","5","2">>, <<"A","G","R","I","G","E","N","T","O">>, <<"A","G">> >>,
       << <<"A","1","1","9">>, <<"A","L","E","S","S","A","N","D","R","I","A">>, <<"A","L">> >>,
       << <<"A","3","9","9">>, <<"A","R","E","Z","Z","O">>, <<"A","R">> >>,
       << <<"A","4","7","9">>, <<"A","S","C","O","L","I"," ","P","I","C","E","N","O">>, <<"A","P">> >>,
       << <<"A","6","6","2">>, <<"A","S","T","I">>, <<"A","T">> >>,
       << <<"A","6","6","9">>, <<"A","V","E","L","L","I","N","O">>, <<"A","V">> >>,
       << <<"B","1","1","1">>, <<"B","E","L","L","U","N","O">>, <<"B","L">> >>,
       << <<"B","0","4","1">>, <<"B","E","N","E","V","E","N","T","O">>, <<"B","N">> >>,
       << <<"B","2","4","9">>, <<"B","E","R","G","A","M","O">>, <<"B","G">> >>,
       << <<"B","8","3","2">>, <<"B","I","E","L","L","A">>, <<"B","I">> >>,
       << <<"C","2","1","9">>, <<"C","A","L","T","A","N","I","S","S","E","T","T","A">>, <<"C","L">> >>,
       << <<"C","3","5","2">>, <<"C","A","T","A","N","I","A">>, <<"C","T">> >>,
       << <<"C","6","3","2">>, <<"C","H","I","E","T","I">>, <<"C","H">> >>,
       << <<"C","8","5","8">>, <<"C","O","M","O">>, <<"C","O">> >>,
       << <<"C","9","0","4">>, <<"C","O","S","E","N","Z","A">>, <<"C","S">> >>,
       << <<"C","9","3","3">>, <<"C","R","E","M","O","N","A">>, <<"C","R">> >>,
       << <<"C","9","8","0">>, <<"C","R","O","T","O","N","E">>, <<"K","R">> >>,
       << <<"D","0","0","9">>, <<"C","U","N","E","O">>, <<"C","N">> >>,
       << <<"D","2","5","8">>, <<"E","N","N","A">>, <<"E","N">> >>,
       << <<"D","4","6","1">>, <<"F","E","R","R","A","R","A">>, <<"F","E">> >>,
       << <<"D","6","4","3">>, <<"F","O","G","G","I","A">>, <<"F","G">> >>,
       << <<"D","7","0","5">>, <<"F","O","R","L","I","'">>, <<"F","C">> >>,
       << <<"D","7","9","1">>, <<"F","R","O","S","I","N","O","N","E">>, <<"F","R">> >>,
       << <<"E","0","9","8">>, <<"G","O","R","I","Z","I","A">>, <<"G","O">> >>,
       << <<"E","2","0","5">>, <<"G","R","O","S","S","E","T","O">>, <<"G","R">> >>,
       << <<"E","2","8","9">>, <<"I","M","P","E","R","I","A">>, <<"I","M">> >>,
       << <<"E","3","3","5">>, <<"I","S","E","R","N","I","A">>, <<"I","S">> >>,
       << <<"E","4","7","3">>, <<"L","A"," ","S","P","E","Z","I","A">>, <<"S","P">> >>,
       << <<"E","5","0","6">>, <<"L","E","C","C","E">>, <<"L","E">> >>,
       << <<"E","5","0","7">>, <<"L","E","C","C","O">>, <<"L","C">> >>,
       << <<"E","6","4","8">>, <<"L","I","V","O","R","N","O">>, <<"L","I">> >>,
       << <<"E","7","0","4">>, <<"L","O","D","I">>, <<"L","O">> >>,
       << <<"E","7","1","5">>, <<"L","U","C","C","A">>, <<"L","U">> >>,
       << <<"E","7","8","5">>, <<"M","A","C","E","R","A","T","A">>, <<"M","C">> >>,
       << <<"E","8","3","5">>, <<"M","A","N","T","O","V","A">>, <<"M","N">> >>,
       << <<"E","8","7","7">>, <<"M","A","S","S","A">>, <<"M","S">> >>,
       << <<"E","8","9","1">>, <<"M","A","T","E","R","A">>, <<"M","T">> >>,
       << <<"E","9","5","6">>, <<"M","E","S","S","I","N","A">>, <<"M","E">> >>,
       << <<"F","1","6","1">>, <<"M","O","D","E","N","A">>, <<"M","O">> >>,
       << <<"F","7","7","0">>, <<"N","O","V","A","R","A">>, <<"N","O">> >>,
       << <<"F","8","0","9">>, <<"N","U","O","R","O">>, <<"N","U">> >>,
       << <<"F","8","4","4">>, <<"O","L","B","I","A">>, <<"S","S">> >>,
       << <<"F","8","4","8">>, <<"O","R","I","S","T","A","N","O">>, <<"O","R">> >>,
       << <<"G","1","2","6">>, <<"P","A","D","O","V","A">>, <<"P","D">> >>,
       << <<"G","3","8","8">>, <<"P","A","V","I","A">>, <<"P","V">> >>,
       << <<"G","6","2","8">>, <<"P","I","S","A">>, <<"P","I">> >>,
       << <<"G","6","3","6">>, <<"P","I","S","T","O","I","A">>, <<"P","T">> >>,
       << <<"G","7","1","3">>, <<"P","O","R","D","E","N","O","N","E">>, <<"P","N">> >>,
       << <<"G","7","8","6">>, <<"P","R","A","T","O">>, <<"P","O">> >>,
       << <<"H","1","4","1">>, <<"R","A","G","U","S","A">>, <<"R","G">> >>,
       << <<"H","1","6","3">>, <<"R","A","V","E","N","N","A">>, <<"R","A">> >>,
       << <<"H","2","8","2">>, <<"R","I","E","T","I">>, <<"R","I">> >>,
       << <<"H","2","9","4">>, <<"R","I","M","I","N","I">>, <<"R","N">> >>,
       << <<"H","6","1","2">>, <<"R","O","V","I","G","O">>, <<"R","O">> >>,
       << <<"I","1","1","9">>, <<"S","A","S","S","A","R","I">>, <<"S","S">> >>,
       << <<"I","1","3","8">>, <<"S","A","V","O","N","A">>, <<"S","V">> >>,
       << <<"I","3","2","9">>, <<"S","I","E","N","A">>, <<"S","I">> >>,
       << <<"I","3","5","6">>, <<"S","I","R","A","C","U","S","A">>, <<"S","R">> >>,
       << <<"I","3","6","2">>, <<"S","O","N","D","R","I","O">>, <<"S","O">> >>,
       << <<"I","5","8","8">>, <<"T","A","R","A","N","T","O">>, <<"T","A">> >>,
       << <<"I","6","2","5">>, <<"T","E","R","A","M","O">>, <<"T","E">> >>,
       << <<"I","6","3","2">>, <<"T","E","R","N","I">>, <<"T","R">> >>,
       << <<"I","7","8","5">>, <<"T","R","A","P","A","N","I">>, <<"T","P">> >>,
       << <<"I","8","1","9">>, <<"T","R","E","V","I","S","O">>, <<"T","V">> >>,
       << <<"L","0","4","9">>, <<"V","A","R","E","S","E">>, <<"V","A">> >>,
       << <<"L","3","7","8">>, <<"V","E","R","B","A","N","I","A">>, <<"V","B">> >>,
       << <<"L","3","8","0">>, <<"V","E","R","C","E","L","L","I">>, <<"V","C">> >>,
       << <<"L","5","6","5">>, <<"V","I","C","E","N","Z","A">>, <<"V","I">> >>,
       << <<"L","6","8","2">>, <<"V","I","T","E","R","B","O">>, <<"V","T">> >>,
       << <<"M","2","9","7">>, <<"V","I","B","O"," ","V","A","L","E","N","T","I","A">>, <<"V","V">> >>,
       << <<"A","0","8","9">>, <<"A","L","B","A","N","O"," ","L","A","Z","I","A","L","E">>, <<"R","M">> >>,
       << <<"B","7","1","5">>, <<"B","U","S","T","O"," ","A","R","S","I","Z","I","O">>, <<"V","A">> >>,
       << <<"C","1","2","9">>, <<"C","A","I","V","A","N","O">>, <<"N","A">> >>,
       << <<"C","5","7","3">>, <<"C","E","S","E","N","A">>, <<"F","C">> >>,
       << <<"C","6","7","5">>, <<"C","I","N","I","S","E","L","L","O"," ","B","A","L","S","A","M","O">>, <<"M","I">> >>,
       << <<"D","9","6","9">>, <<"G","I","U","G","L","I","A","N","O"," ","I","N"," ","C","A","M","P","A","N","I","A">>, <<"N","A">> >>,
       << <<"E","2","5","6">>, <<"G","U","I","D","O","N","I","A"," ","M","O","N","T","E","C","E","L","I","O">>, <<"R","M">> >>,
       << <<"E","4","1","5">>, <<"J","E","S","O","L","O">>, <<"V","E">> >>,
       << <<"F","1","5","8">>, <<"M","E","S","T","R","E">>, <<"V","E">> >>,
       << <<"F","1","5","2">>, <<"M","O","D","I","C","A">>, <<"R","G">> >>,
       << <<"F","2","4","0">>, <<"M","O","L","F","E","T","T","A">>, <<"B","A">> >>,
       << <<"F","2","5","7">>, <<"M","O","N","C","A","L","I","E","R","I">>, <<"T","O">> >>,
       << <<"F","2","8","0">>, <<"M","O","N","F","A","L","C","O","N","E">>, <<"G","O">> >>,
       << <<"F","2","9","9">>, <<"M","O","N","O","P","O","L","I">>, <<"B","A">> >>,
       << <<"F","3","0","9">>, <<"M","O","N","R","E","A","L","E">>, <<"P","A">> >>,
       << <<"F","3","2","9">>, <<"M","O","N","T","E","B","E","L","L","U","N","A">>, <<"T","V">> >>,
       << <<"F","5","3","7">>, <<"M","O","N","T","E","S","I","L","V","A","N","O">>, <<"P","E">> >>,
       << <<"F","6","5","6">>, <<"N","E","T","T","U","N","O">>, <<"R","M">> >>,
       << <<"F","7","9","9">>, <<"N","O","C","E","R","A"," ","I","N","F","E","R","I","O","R","E">>, <<"S","A">> >>,
       << <<"G","2","2","4">>, <<"P","A","G","A","N","I">>, <<"S","A">> >>,
       << <<"G","3","9","3">>, <<"P","A","T","E","R","N","Ò">>, <<"C","T">> >>,
       << <<"G","5","6","8">>, <<"P","I","O","M","B","I","N","O">>, <<"L","I">> >>,
       << <<"G","6","8","7">>, <<"P","O","M","I","G","L","I","A","N","O"," ","D","'","A","R","C","O">>, <<"N","A">> >>,
       << <<"G","6","9","3">>, <<"P","O","M","P","E","I">>, <<"N","A">> >>,
       << <<"G","7","1","6">>, <<"P","O","R","I","C","I">>, <<"N","A">> >>,
       << <<"G","7","9","5">>, <<"P","O","Z","Z","U","O","L","I">>, <<"N","A">> >>,
       << <<"G","9","0","2">>, <<"Q","U","A","R","T","U"," ","S","A","N","T","'","E","L","E","N","A">>, <<"C","A">> >>,
       << <<"H","7","2","7">>, <<"S","A","N"," ","B","E","N","E","D","E","T","T","O"," ","D","E","L"," ","T","R","O","N","T","O">>, <<"A","P">> >>,
       << <<"H","7","8","5">>, <<"S","A","N"," ","D","O","N","À"," ","D","I"," ","P","I","A","V","E">>, <<"V","E">> >>,
       << <<"H","7","9","8">>, <<"S","A","N"," ","G","I","O","V","A","N","N","I"," ","R","O","T","O","N","D","O">>, <<"F","G">> >>,
       << <<"I","0","7","3">>, <<"S","A","N","R","E","M","O">>, <<"I","M">> >>,
       << <<"I","0","7","2">>, <<"S","A","N"," ","S","E","V","E","R","O">>, <<"F","G">> >>,
       << <<"I","2","3","4">>, <<"S","E","S","T","O"," ","S","A","N"," ","G","I","O","V","A","N","N","I">>, <<"M","I">> >>,
       << <<"L","6","9","8">>, <<"V","I","A","R","E","G","G","I","O">>, <<"L","U">> >>,
       << <<"L","8","4","0">>, <<"V","I","G","E","V","A","N","O">>, <<"P","V">> >>,
       << <<"M","0","8","2">>, <<"V","I","T","T","O","R","I","A">>, <<"R","G">> >>,
       << <<"Z","1","0","0">>, <<"A","L","B","A","N","I","A">>, <<"E","E">> >>,
       << <<"Z","1","0","2">>, <<"A","N","D","O","R","R","A">>, <<"E","E">> >>,
       << <<"Z","1","0","3">>, <<"A","U","S","T","R","I","A">>, <<"E","E">> >>,
       << <<"Z","1","0","4">>, <<"B","E","L","G","I","O">>, <<"E","E">> >>,
       << <<"Z","1","0","6">>, <<"B","U","L","G","A","R","I","A">>, <<"E","E">> >>,
       << <<"Z","1","0","7">>, <<"D","A","N","I","M","A","R","C","A">>, <<"E","E">> >>,
       << <<"Z","1","0","8">>, <<"F","I","N","L","A","N","D","I","A">>, <<"E","E">> >>,
       << <<"Z","1","0","9">>, <<"F","R","A","N","C","I","A">>, <<"E","E">> >>,
       << <<"Z","1","1","0">>, <<"G","E","R","M","A","N","I","A">>, <<"E","E">> >>,
       << <<"Z","1","1","2">>, <<"R","E","G","N","O"," ","U","N","I","T","O">>, <<"E","E">> >>,
       << <<"Z","1","1","3">>, <<"G","R","E","C","I","A">>, <<"E","E">> >>,
       << <<"Z","1","1","4">>, <<"I","R","L","A","N","D","A">>, <<"E","E">> >>,
       << <<"Z","1","1","5">>, <<"I","S","L","A","N","D","A">>, <<"E","E">> >>,
       << <<"Z","1","1","6">>, <<"L","I","E","C","H","T","E","N","S","T","E","I","N">>, <<"E","E">> >>,
       << <<"Z","1","1","7">>, <<"L","U","S","S","E","M","B","U","R","G","O">>, <<"E","E">> >>,
       << <<"Z","1","1","8">>, <<"M","A","L","T","A">>, <<"E","E">> >>,
       << <<"Z","1","1","9">>, <<"M","O","N","A","C","O">>, <<"E","E">> >>,
       << <<"Z","1","2","0">>, <<"N","O","R","V","E","G","I","A">>, <<"E","E">> >>,
       << <<"Z","1","2","1">>, <<"P","A","E","S","I"," ","B","A","S","S","I">>, <<"E","E">> >>,
       << <<"Z","1","2","2">>, <<"P","O","L","O","N","I","A">>, <<"E","E">> >>,
       << <<"Z","1","2","3">>, <<"P","O","R","T","O","G","A","L","L","O">>, <<"E","E">> >>,
       << <<"Z","1","2","4">>, <<"R","O","M","A","N","I","A">>, <<"E","E">> >>,
       << <<"Z","1","2","5">>, <<"S","A","N"," ","M","A","R","I","N","O">>, <<"E","E">> >>,
       << <<"Z","1","2","6">>, <<"S","P","A","G","N","A">>, <<"E","E">> >>,
       << <<"Z","1","2","7">>, <<"S","V","E","Z","I","A">>, <<"E","E">> >>,
       << <<"Z","1","2","8">>, <<"S","V","I","Z","Z","E","R","A">>, <<"E","E">> >>,
       << <<"Z","1","2","9">>, <<"U","N","G","H","E","R","I","A">>, <<"E","E">> >>,
       << <<"Z","1","3","0">>, <<"U","C","R","A","I","N","A">>, <<"E","E">> >>,
       << <<"Z","1","3","1">>, <<"R","U","S","S","I","A">>, <<"E","E">> >>,
       << <<"Z","1","3","2">>, <<"E","S","T","O","N","I","A">>, <<"E","E">> >>,
       << <<"Z","1","3","3">>, <<"L","E","T","T","O","N","I","A">>, <<"E","E">> >>,
       << <<"Z","1","3","4">>, <<"L","I","T","U","A","N","I","A">>, <<"E","E">> >>,
       << <<"Z","1","3","5">>, <<"C","R","O","A","Z","I","A">>, <<"E","E">> >>,
       << <<"Z","1","3","6">>, <<"S","L","O","V","E","N","I","A">>, <<"E","E">> >>,
       << <<"Z","1","3","8">>, <<"M","A","C","E","D","O","N","I","A">>, <<"E","E">> >>,
       << <<"Z","1","3","9">>, <<"M","O","L","D","A","V","I","A">>, <<"E","E">> >>,
       << <<"Z","1","4","0">>, <<"S","L","O","V","A","C","C","H","I","A">>, <<"E","E">> >>,
       << <<"Z","1","4","9">>, <<"R","E","P","U","B","B","L","I","C","A"," ","C","E","C","A">>, <<"E","E">> >>,
       << <<"Z","1","5","0">>, <<"S","E","R","B","I","A">>, <<"E","E">> >>,
       << <<"Z","1","5","3">>, <<"B","I","E","L","O","R","U","S","S","I","A">>, <<"E","E">> >>,
       << <<"Z","1","5","4">>, <<"B","O","S","N","I","A"," ","E","R","Z","E","G","O","V","I","N","A">>, <<"E","E">> >>,
       << <<"Z","1","5","8">>, <<"M","O","N","T","E","N","E","G","R","O">>, <<"E","E">> >>,
       << <<"Z","1","5","9">>, <<"K","O","S","O","V","O">>, <<"E","E">> >>,
       << <<"Z","2","0","0">>, <<"E","G","I","T","T","O">>, <<"E","E">> >>,
       << <<"Z","2","0","3">>, <<"L","I","B","I","A">>, <<"E","E">> >>,
       << <<"Z","2","0","4">>, <<"M","A","R","O","C","C","O">>, <<"E","E">> >>,
       << <<"Z","2","0","5">>, <<"N","I","G","E","R","I","A">>, <<"E","E">> >>,
       << <<"Z","2","0","8">>, <<"S","E","N","E","G","A","L">>, <<"E","E">> >>,
       << <<"Z","2","1","0">>, <<"G","H","A","N","A">>, <<"E","E">> >>,
       << <<"Z","2","1","1">>, <<"C","O","S","T","A"," ","D","'","A","V","O","R","I","O">>, <<"E","E">> >>,
       << <<"Z","2","1","5">>, <<"S","O","M","A","L","I","A">>, <<"E","E">> >>,
       << <<"Z","2","1","7">>, <<"E","T","I","O","P","I","A">>, <<"E","E">> >>,
       << <<"Z","2","1","8">>, <<"E","R","I","T","R","E","A">>, <<"E","E">> >>,
       << <<"Z","2","1","9">>, <<"S","U","D","A","F","R","I","C","A">>, <<"E","E">> >>,
       << <<"Z","2","2","9">>, <<"T","U","N","I","S","I","A">>, <<"E","E">> >>,
       << <<"Z","2","3","5">>, <<"C","A","M","E","R","U","N">>, <<"E","E">> >>,
       << <<"Z","2","4","3">>, <<"A","L","G","E","R","I","A">>, <<"E","E">> >>,
       << <<"Z","3","0","0">>, <<"A","F","G","H","A","N","I","S","T","A","N">>, <<"E","E">> >>,
       << <<"Z","3","0","1">>, <<"A","R","A","B","I","A"," ","S","A","U","D","I","T","A">>, <<"E","E">> >>,
       << <<"Z","3","0","2">>, <<"B","A","H","R","E","I","N">>, <<"E","E">> >>,
       << <<"Z","3","0","3">>, <<"B","A","N","G","L","A","D","E","S","H">>, <<"E","E">> >>,
       << <<"Z","3","0","4">>, <<"M","Y","A","N","M","A","R">>, <<"E","E">> >>,
       << <<"Z","3","0","6">>, <<"C","I","N","A">>, <<"E","E">> >>,
       << <<"Z","3","0","7">>, <<"C","I","P","R","O">>, <<"E","E">> >>,
       << <<"Z","3","0","8">>, <<"C","O","R","E","A"," ","D","E","L"," ","N","O","R","D">>, <<"E","E">> >>,
       << <<"Z","3","0","9">>, <<"C","O","R","E","A"," ","D","E","L"," ","S","U","D">>, <<"E","E">> >>,
       << <<"Z","3","1","0">>, <<"E","M","I","R","A","T","I"," ","A","R","A","B","I"," ","U","N","I","T","I">>, <<"E","E">> >>,
       << <<"Z","3","1","1">>, <<"F","I","L","I","P","P","I","N","E">>, <<"E","E">> >>,
       << <<"Z","3","1","2">>, <<"G","I","A","P","P","O","N","E">>, <<"E","E">> >>,
       << <<"Z","3","1","3">>, <<"G","I","O","R","D","A","N","I","A">>, <<"E","E">> >>,
       << <<"Z","3","1","4">>, <<"I","N","D","I","A">>, <<"E","E">> >>,
       << <<"Z","3","1","5">>, <<"I","N","D","O","N","E","S","I","A">>, <<"E","E">> >>,
       << <<"Z","3","1","6">>, <<"I","R","A","N">>, <<"E","E">> >>,
       << <<"Z","3","1","7">>, <<"I","R","A","Q">>, <<"E","E">> >>,
       << <<"Z","3","1","8">>, <<"I","S","R","A","E","L","E">>, <<"E","E">> >>,
       << <<"Z","3","1","9">>, <<"K","U","W","A","I","T">>, <<"E","E">> >>,
       << <<"Z","3","2","0">>, <<"L","A","O","S">>, <<"E","E">> >>,
       << <<"Z","3","2","1">>, <<"L","I","B","A","N","O">>, <<"E","E">> >>,
       << <<"Z","3","2","2">>, <<"M","A","L","E","S","I","A">>, <<"E","E">> >>,
       << <<"Z","3","2","3">>, <<"M","A","L","D","I","V","E">>, <<"E","E">> >>,
       << <<"Z","3","2","4">>, <<"M","O","N","G","O","L","I","A">>, <<"E","E">> >>,
       << <<"Z","3","2","5">>, <<"N","E","P","A","L">>, <<"E","E">> >>,
       << <<"Z","3","2","6">>, <<"O","M","A","N">>, <<"E","E">> >>,
       << <<"Z","3","2","7">>, <<"P","A","K","I","S","T","A","N">>, <<"E","E">> >>,
       << <<"Z","3","2","9">>, <<"Q","A","T","A","R">>, <<"E","E">> >>,
       << <<"Z","3","3","0">>, <<"S","I","N","G","A","P","O","R","E">>, <<"E","E">> >>,
       << <<"Z","3","3","1">>, <<"S","I","R","I","A">>, <<"E","E">> >>,
       << <<"Z","3","3","2">>, <<"S","R","I"," ","L","A","N","K","A">>, <<"E","E">> >>,
       << <<"Z","3","3","3">>, <<"T","H","A","I","L","A","N","D","I","A">>, <<"E","E">> >>,
       << <<"Z","3","3","5">>, <<"T","U","R","C","H","I","A">>, <<"E","E">> >>,
       << <<"Z","3","3","7">>, <<"V","I","E","T","N","A","M">>, <<"E","E">> >>,
       << <<"Z","3","3","8">>, <<"Y","E","M","E","N">>, <<"E","E">> >>,
       << <<"Z","3","4","0">>, <<"K","A","Z","A","K","I","S","T","A","N">>, <<"E","E">> >>,
       << <<"Z","3","4","1">>, <<"U","Z","B","E","K","I","S","T","A","N">>, <<"E","E">> >>,
       << <<"Z","3","4","8">>, <<"A","R","M","E","N","I","A">>, <<"E","E">> >>,
       << <<"Z","3","4","9">>, <<"A","Z","E","R","B","A","I","G","I","A","N">>, <<"E","E">> >>,
       << <<"Z","3","5","0">>, <<"G","E","O","R","G","I","A">>, <<"E","E">> >>,
       << <<"Z","3","5","1">>, <<"K","I","R","G","H","I","Z","I","S","T","A","N">>, <<"E","E">> >>,
       << <<"Z","3","5","2">>, <<"T","A","G","I","K","I","S","T","A","N">>, <<"E","E">> >>,
       << <<"Z","3","5","3">>, <<"T","U","R","K","M","E","N","I","S","T","A","N">>, <<"E","E">> >>,
       << <<"Z","3","5","4">>, <<"T","A","I","W","A","N">>, <<"E","E">> >>,
       << <<"Z","4","0","0">>, <<"S","T","A","T","I"," ","U","N","I","T","I"," ","D","'","A","M","E","R","I","C","A">>, <<"E","E">> >>,
       << <<"Z","4","0","1">>, <<"C","A","N","A","D","A">>, <<"E","E">> >>,
       << <<"Z","4","0","2">>, <<"M","E","S","S","I","C","O">>, <<"E","E">> >>,
       << <<"Z","4","0","3">>, <<"G","U","A","T","E","M","A","L","A">>, <<"E","E">> >>,
       << <<"Z","4","0","4">>, <<"C","O","S","T","A"," ","R","I","C","A">>, <<"E","E">> >>,
       << <<"Z","4","0","5">>, <<"C","U","B","A">>, <<"E","E">> >>,
       << <<"Z","4","0","7">>, <<"R","E","P","U","B","B","L","I","C","A"," ","D","O","M","I","N","I","C","A","N","A">>, <<"E","E">> >>,
       << <<"Z","4","0","9">>, <<"E","L"," ","S","A","L","V","A","D","O","R">>, <<"E","E">> >>,
       << <<"Z","4","1","1">>, <<"H","A","I","T","I">>, <<"E","E">> >>,
       << <<"Z","4","1","3">>, <<"H","O","N","D","U","R","A","S">>, <<"E","E">> >>,
       << <<"Z","4","1","4">>, <<"G","I","A","M","A","I","C","A">>, <<"E","E">> >>,
       << <<"Z","4","1","5">>, <<"N","I","C","A","R","A","G","U","A">>, <<"E","E">> >>,
       << <<"Z","4","1","6">>, <<"P","A","N","A","M","A">>, <<"E","E">> >>,
       << <<"Z","5","0","0">>, <<"A","R","G","E","N","T","I","N","A">>, <<"E","E">> >>,
       << <<"Z","5","0","1">>, <<"B","O","L","I","V","I","A">>, <<"E","E">> >>,
       << <<"Z","5","0","2">>, <<"B","R","A","S","I","L","E">>, <<"E","E">> >>,
       << <<"Z","5","0","3">>, <<"C","I","L","E">>, <<"E","E">> >>,
       << <<"Z","5","0","4">>, <<"C","O","L","O","M","B","I","A">>, <<"E","E">> >>,
       << <<"Z","5","0","5">>, <<"E","C","U","A","D","O","R">>, <<"E","E">> >>,
       << <<"Z","5","0","7">>, <<"P","A","R","A","G","U","A","Y">>, <<"E","E">> >>,
       << <<"Z","5","0","8">>, <<"P","E","R","U","'">>, <<"E","E">> >>,
       << <<"Z","5","0","9">>, <<"S","U","R","I","N","A","M","E">>, <<"E","E">> >>,
       << <<"Z","5","1","0">>, <<"U","R","U","G","U","A","Y">>, <<"E","E">> >>,
       << <<"Z","5","1","1">>, <<"V","E","N","E","Z","U","E","L","A">>, <<"E","E">> >>,
       << <<"Z","6","0","0">>, <<"A","U","S","T","R","A","L","I","A">>, <<"E","E">> >>,
       << <<"Z","6","0","9">>, <<"N","U","O","V","A"," ","Z","E","L","A","N","D","A">>, <<"E","E">> >>,
       << <<"Z","7","0","0">>, <<"C","I","T","T","A","'"," ","D","E","L"," ","V","A","T","I","C","A","N","O">>, <<"E","E">> >> >>

\* CODICI_CATASTALI.get(code)
CODICI_CATASTALI_get(code) ==
    IF \E i \in DOMAIN CODICI_CATASTALI : CODICI_CATASTALI[i][1] = code
    THEN LET i == CHOOSE i \in DOMAIN CODICI_CATASTALI : CODICI_CATASTALI[i][1] = code
         IN  Some(<< CODICI_CATASTALI[i][2], CODICI_CATASTALI[i][3] >>)
    ELSE None

get_municipality_info(cadastral_code) == CODICI_CATASTALI_get(str_upper(cadastral_code))

\* as is_foreign_country, true only for the codes CODICI_CATASTALI has
is_foreign_country_when_listed(cadastral_code) ==
    /\ CODICI_CATASTALI_get(str_upper(cadastral_code)) # None
    /\ str_startswith(str_upper(cadastral_code), <<"Z">>)

is_foreign_country(cadastral_code) == str_startswith(str_upper(cadastral_code), <<"Z">>)

\* the characters of the directory's names, in the order of their code points
CODE_POINT_ORDER == << " ", "'" >> \o ASCII_UPPERCASE \o << "À", "Ò" >>

RECURSIVE str_lt(_, _)
\* a < b between str
str_lt(a, b) ==
    IF b = <<>> THEN FALSE
    ELSE IF a = <<>> THEN TRUE
    ELSE IF Head(a) = Head(b) THEN str_lt(Tail(a), Tail(b))
    ELSE IndexOf(CODE_POINT_ORDER, Head(a)) < IndexOf(CODE_POINT_ORDER, Head(b))

\* sub in s
str_contains(s, sub) ==
    \E start \in 1..(Len(s) - Len(sub) + 1) : SubSeq(s, start, start + Len(sub) - 1) = sub

\* sorted(results, key=lambda x: x[1]): ascending, and stable (entries with
\* equal names keep their order)
sorted_by_name(results) ==
    LET rank == [ i \in DOMAIN results |->
                    Cardinality({ j \in DOMAIN results :
                        \/ str_lt(results[j][2], results[i][2])
                        \/ results[j][2] = results[i][2] /\ j <= i }) ] \o <<>>
    IN  [ k \in DOMAIN results |-> results[CHOOSE i \in DOMAIN results : rank[i] = k] ]

\* as search_municipality, without partial_name.upper()
search_municipality_case_sensitive(partial_name) ==
    LET matches(entry) == str_contains(entry[2], partial_name)
    IN  sorted_by_name(SelectSeq(CODICI_CATASTALI, matches))

search_municipality(partial_name) ==
    LET partial_upper == str_upper(partial_name)
        matches(entry) == str_contains(entry[2], partial_upper)
    IN  sorted_by_name(SelectSeq(CODICI_CATASTALI, matches))

----------------------------------------------------------------------------
(* validators.py: tables *)

MINIMUM_AGE_YEARS == 18

CF_ODD_VALUES ==
    ("0" :> 1) @@ ("1" :> 0) @@ ("2" :> 5) @@ ("3" :> 7) @@ ("4" :> 9) @@
    ("5" :> 13) @@ ("6" :> 15) @@ ("7" :> 17) @@ ("8" :> 19) @@ ("9" :> 21) @@
    ("A" :> 1) @@ ("B" :> 0) @@ ("C" :> 5) @@ ("D" :> 7) @@ ("E" :> 9) @@
    ("F" :> 13) @@ ("G" :> 15) @@ ("H" :> 17) @@ ("I" :> 19) @@ ("J" :> 21) @@
    ("K" :> 2) @@ ("L" :> 4) @@ ("M" :> 18) @@ ("N" :> 20) @@ ("O" :> 11) @@
    ("P" :> 3) @@ ("Q" :> 6) @@ ("R" :> 8) @@ ("S" :> 12) @@ ("T" :> 14) @@
    ("U" :> 16) @@ ("V" :> 10) @@ ("W" :> 22) @@ ("X" :> 25) @@ ("Y" :> 24) @@
    ("Z" :> 23)

CF_EVEN_VALUES ==
    ("0" :> 0) @@ ("1" :> 1) @@ ("2" :> 2) @@ ("3" :> 3) @@ ("4" :> 4) @@
    ("5" :> 5) @@ ("6" :> 6) @@ ("7" :> 7) @@ ("8" :> 8) @@ ("9" :> 9) @@
    ("A" :> 0) @@ ("B" :> 1) @@ ("C" :> 2) @@ ("D" :> 3) @@ ("E" :> 4) @@
    ("F" :> 5) @@ ("G" :> 6) @@ ("H" :> 7) @@ ("I" :> 8) @@ ("J" :> 9) @@
    ("K" :> 10) @@ ("L" :> 11) @@ ("M" :> 12) @@ ("N" :> 13) @@ ("O" :> 14) @@
    ("P" :> 15) @@ ("Q" :> 16) @@ ("R" :> 17) @@ ("S" :> 18) @@ ("T" :> 19) @@
    ("U" :> 20) @@ ("V" :> 21) @@ ("W" :> 22) @@ ("X" :> 23) @@ ("Y" :> 24) @@
    ("Z" :> 25)

\* as CF_MONTH_CODES, with the letters taken in alphabet order from A to L
CF_MONTH_CODES_consecutive_letters ==
    ("A" :> 1) @@ ("B" :> 2) @@ ("C" :> 3) @@ ("D" :> 4) @@ ("E" :> 5) @@
    ("F" :> 6) @@ ("G" :> 7) @@ ("H" :> 8) @@ ("I" :> 9) @@ ("J" :> 10) @@
    ("K" :> 11) @@ ("L" :> 12)

CF_MONTH_CODES ==
    ("A" :> 1) @@ ("B" :> 2) @@ ("C" :> 3) @@ ("D" :> 4) @@ ("E" :> 5) @@
    ("H" :> 6) @@ ("L" :> 7) @@ ("M" :> 8) @@ ("P" :> 9) @@ ("R" :> 10) @@
    ("S" :> 11) @@ ("T" :> 12)

CF_OMOCODIA_CHARS ==
    ("L" :> "0") @@ ("M" :> "1") @@ ("N" :> "2") @@ ("P" :> "3") @@ ("Q" :> "4") @@
    ("R" :> "5") @@ ("S" :> "6") @@ ("T" :> "7") @@ ("U" :> "8") @@ ("V" :> "9")

\* {v: k for k, v in CF_OMOCODIA_CHARS.items()}
CF_OMOCODIA_DIGITS ==
    [ d \in { CF_OMOCODIA_CHARS[k] : k \in DOMAIN CF_OMOCODIA_CHARS } |->
        CHOOSE k \in DOMAIN CF_OMOCODIA_CHARS : CF_OMOCODIA_CHARS[k] = d ]

\* {v: k for k, v in CF_MONTH_CODES.items()}
CF_MONTH_CODES_REVERSE ==
    [ m \in { CF_MONTH_CODES[k] : k \in DOMAIN CF_MONTH_CODES } |->
        CHOOSE k \in DOMAIN CF_MONTH_CODES : CF_MONTH_CODES[k] = m ]

----------------------------------------------------------------------------
(* validators.py: result records *)

\* as CodiceFiscaleValidationResult, keeping formatted_value of valid results only
CodiceFiscaleValidationResult_formatted_on_success(is_valid, error_code, formatted_value, birthdate, age, gender, birth_place_code, birth_place_name, birth_place_province, is_foreign_born) ==
    [ is_valid |-> is_valid,
      error_code |-> error_code,
      formatted_value |-> IF is_valid THEN formatted_value ELSE None,
      birthdate |-> birthdate,
      age |-> age,
      gender |-> gender,
      birth_place_code |-> birth_place_code,
      birth_place_name |-> birth_place_name,
      birth_place_province |-> birth_place_province,
      is_foreign_born |-> is_foreign_born ]

CodiceFiscaleValidationResult(is_valid, error_code, formatted_value, birthdate, age, gender, birth_place_code, birth_place_name, birth_place_province, is_foreign_born) ==
    [ is_valid |-> is_valid,
      error_code |-> error_code,
      formatted_value |-> formatted_value,
      birthdate |-> birthdate,
      age |-> age,
      gender |-> gender,
      birth_place_code |-> birth_place_code,
      birth_place_name |-> birth_place_name,
      birth_place_province |-> birth_place_province,
      is_foreign_born |-> is_foreign_born ]

PartitaIvaValidationResult(is_valid, error_code, formatted_value, is_temporary, province_code) ==
    [ is_valid |-> is_valid,
      error_code |-> error_code,
      formatted_value |-> formatted_value,
      is_temporary |-> is_temporary,
      province_code |-> province_code ]

CodiceFiscaleGenerationResult(is_valid, error_code, codice_fiscale) ==
    [ is_valid |-> is_valid,
      error_code |-> error_code,
      codice_fiscale |-> codice_fiscale ]

----------------------------------------------------------------------------
(* validators.py: CodiceFiscaleValidator *)

\* 0-indexed
OMOCODIA_POSITIONS == << 6, 7, 9, 10, 12, 13, 14 >>

\* as CF_PATTERN, with [A-Z0-9] for the month
CF_PATTERN_month_alphanumeric ==
    LET L == UpperLetters
        X == UpperLetters \cup DigitChars
    IN  << L, L, L, L, L, L, X, X, X, X, X, L, X, X, X, L >>

\* the character classes of CF_PATTERN, position by position:
\* [A-Z]{6}[A-Z0-9]{2}[A-Z][A-Z0-9]{2}[A-Z][A-Z0-9]{3}[A-Z]
CF_PATTERN ==
    LET L == UpperLetters
        X == UpperLetters \cup DigitChars
    IN  << L, L, L, L, L, L, X, X, L, X, X, L, X, X, X, L >>

\* bool(CF_PATTERN.match(cf)): ^ and $ anchor the 16 characters, and $ also
\* matches just before a newline that ends the string
CF_PATTERN_match(cf) ==
    /\ \/ Len(cf) = Len(CF_PATTERN)
       \/ Len(cf) = Len(CF_PATTERN) + 1 /\ cf[Len(cf)] = "\n"
    /\ \A i \in DOMAIN CF_PATTERN : cf[i] \in CF_PATTERN[i]

CodiceFiscaleValidator_validate_format(cf) == Len(cf) = 16 /\ CF_PATTERN_match(cf)

\* as _decode_omocodia, looking at every position of cf
decode_omocodia_at_every_position(cf) ==
    IF \E k \in DOMAIN OMOCODIA_POSITIONS : OMOCODIA_POSITIONS[k] >= Len(cf)
    THEN Raise("IndexError")
    ELSE Return([ i \in 1..Len(cf) |->
            IF cf[i] \in DOMAIN CF_OMOCODIA_CHARS THEN CF_OMOCODIA_CHARS[cf[i]] ELSE cf[i] ])

\* IndexError when cf is too short for one of the positions
CodiceFiscaleValidator_decode_omocodia(cf) ==
    IF \E k \in DOMAIN OMOCODIA_POSITIONS : OMOCODIA_POSITIONS[k] >= Len(cf)
    THEN Raise("IndexError")
    ELSE Return([ i \in 1..Len(cf) |->
            IF (i - 1) \in Range(OMOCODIA_POSITIONS) /\ cf[i] \in DOMAIN CF_OMOCODIA_CHARS
            THEN CF_OMOCODIA_CHARS[cf[i]]
            ELSE cf[i] ])

RECURSIVE check_digit_total_tables_swapped(_, _)
\* as the loop of _validate_check_digit, with the two tables exchanged
check_digit_total_tables_swapped(chars, n) ==
    IF n = 0 THEN 0
    ELSE check_digit_total_tables_swapped(chars, n - 1)
         + (IF (n - 1) % 2 = 0
            THEN dict_get(CF_EVEN_VALUES, chars[n], 0)
            ELSE dict_get(CF_ODD_VALUES, chars[n], 0))

RECURSIVE validate_check_digit_total(_, _)
\* the loop of _validate_check_digit over chars[0:n]
validate_check_digit_total(chars, n) ==
    IF n = 0 THEN 0
    ELSE validate_check_digit_total(chars, n - 1)
         + (IF (n - 1) % 2 = 0
            THEN dict_get(CF_ODD_VALUES, chars[n], 0)
            ELSE dict_get(CF_EVEN_VALUES, chars[n], 0))

\* as _validate_check_digit, summing over decoded_cf instead of decoded_cf[:15]
validate_check_digit_over_all_16(cf) ==
    LET decoded_cf == CodiceFiscaleValidator_decode_omocodia(cf)
    IN  IF decoded_cf.exc # "none" THEN decoded_cf
        ELSE LET total == validate_check_digit_total(decoded_cf.val, Len(decoded_cf.val))
                 expected_check == chr_from_A(total % 26)
             IN  IF Len(cf) <= 15 THEN Raise("IndexError")
                 ELSE Return(cf[16] = expected_check)

\* as _validate_check_digit, summing over cf[:15] without decoding omocodia
validate_check_digit_without_decoding(cf) ==
    LET head == str_slice(cf, 0, 15)
        total == validate_check_digit_total(head, Len(head))
        expected_check == chr_from_A(total % 26)
    IN  IF Len(cf) <= 15 THEN Raise("IndexError")
        ELSE Return(cf[16] = expected_check)

CodiceFiscaleValidator_validate_check_digit(cf) ==
    LET decoded_cf == CodiceFiscaleValidator_decode_omocodia(cf)
    IN  IF decoded_cf.exc # "none" THEN decoded_cf
        ELSE LET head == str_slice(decoded_cf.val, 0, 15)
                 total == validate_check_digit_total(head, Len(head))
                 expected_check == chr_from_A(total % 26)
             IN  IF Len(cf) <= 15 THEN Raise("IndexError")
                 ELSE Return(cf[16] = expected_check)

\* as "Determine century", with >= for >
determine_century_at_or_after(year, current_year) ==
    LET current_century == (current_year \div 100) * 100
        current_year_two_digits == current_year % 100
    IN  IF year >= current_year_two_digits
        THEN 1900 + year
        ELSE current_century + year

\* "Determine century" in _extract_birthdate_and_gender
determine_century(year, current_year) ==
    LET current_century == (current_year \div 100) * 100
        current_year_two_digits == current_year % 100
    IN  IF year > current_year_two_digits
        THEN 1900 + year
        ELSE current_century + year

\* as "For females, 40 is added to the day", with the gender left at "M"
day_and_gender_always_male(day) ==
    IF day > 40 THEN << day - 40, "M" >> ELSE << day, "M" >>

\* "For females, 40 is added to the day" in _extract_birthdate_and_gender: (day, gender)
day_and_gender(day) ==
    IF day > 40 THEN << day - 40, "F" >> ELSE << day, "M" >>

\* the try block of _extract_birthdate_and_gender
extract_birthdate_and_gender_try(cf, current_date) ==
    LET decoded_cf == CodiceFiscaleValidator_decode_omocodia(cf)
    IN  IF decoded_cf.exc # "none" THEN decoded_cf
        ELSE
        LET year_digits == str_slice(decoded_cf.val, 6, 8)
            year2 == int_of_str(year_digits)
        IN  IF year2.exc # "none" THEN year2
            ELSE
            LET year == determine_century(year2.val, current_date.year)
            IN  IF Len(cf) <= 8 THEN Raise("IndexError")
                ELSE
                LET month_char == cf[9]
                    month == IF month_char \in DOMAIN CF_MONTH_CODES
                             THEN Some(CF_MONTH_CODES[month_char])
                             ELSE None
                IN  IF month = None THEN Return(<< None, None >>)
                    ELSE
                    LET day_digits == str_slice(decoded_cf.val, 9, 11)
                        day2 == int_of_str(day_digits)
                    IN  IF day2.exc # "none" THEN day2
                        ELSE
                        LET day == day_and_gender(day2.val)[1]
                            gender == day_and_gender(day2.val)[2]
                            d == date(year, month[1], day)
                        IN  IF d.exc # "none" THEN d
                            ELSE Return(<< Some(d.val), Some(gender) >>)

\* as _extract_birthdate_and_gender, with except IndexError alone
extract_catching_index_error_only(cf, current_date) ==
    LET r == extract_birthdate_and_gender_try(cf, current_date)
    IN  IF r.exc \in { "IndexError" } THEN Return(<< None, None >>) ELSE r

\* except (ValueError, IndexError): return None, None
CodiceFiscaleValidator_extract_birthdate_and_gender(cf, current_date) ==
    LET r == extract_birthdate_and_gender_try(cf, current_date)
    IN  IF r.exc \in { "ValueError", "IndexError" } THEN Return(<< None, None >>) ELSE r

\* as the age of validate, with <= for < between the (month, day) pairs
age_on_counting_after_the_birthday(current_date, birthdate) ==
    current_date.year - birthdate.year
    - (IF \/ current_date.month < birthdate.month
          \/ current_date.month = birthdate.month /\ current_date.day <= birthdate.day
       THEN 1 ELSE 0)

\* today.year - birthdate.year - ((today.month, today.day) < (birthdate.month, birthdate.day))
age_on(current_date, birthdate) ==
    current_date.year - birthdate.year
    - (IF \/ current_date.month < birthdate.month
          \/ current_date.month = birthdate.month /\ current_date.day < birthdate.day
       THEN 1 ELSE 0)

\* as "Check age if required", with <= for <
is_underage_at_the_minimum_age(check_adult, age, minimum_age) == check_adult /\ age <= minimum_age

\* "Check age if required" in validate: check_adult and age < minimum_age
is_underage(check_adult, age, minimum_age) == check_adult /\ age < minimum_age

\* validate reads the clock twice: current_date is what date.today() returns
\* to _extract_birthdate_and_gender (current_year), date_today what it returns
\* to "Calculate age" (today)
CodiceFiscaleValidator_validate(value, check_adult, minimum_age, current_date, date_today) ==
    LET clean_value == str_remove(str_upper(str_strip(value)), " ")
    IN  IF ~CodiceFiscaleValidator_validate_format(clean_value)
        THEN Return(CodiceFiscaleValidationResult(FALSE, Some("tax_id_cf_invalid_format"),
                        Some(clean_value), None, None, None, None, None, None, None))
        ELSE
        LET check == CodiceFiscaleValidator_validate_check_digit(clean_value)
        IN  IF check.exc # "none" THEN check
            ELSE IF ~check.val
            THEN Return(CodiceFiscaleValidationResult(FALSE, Some("tax_id_cf_invalid_format"),
                            Some(clean_value), None, None, None, None, None, None, None))
            ELSE
            LET extracted == CodiceFiscaleValidator_extract_birthdate_and_gender(clean_value, current_date)
            IN  IF extracted.exc # "none" THEN extracted
                ELSE IF extracted.val[1] = None
                THEN Return(CodiceFiscaleValidationResult(FALSE, Some("tax_id_cf_cannot_decode_birthdate"),
                                Some(clean_value), None, None, None, None, None, None, None))
                ELSE
                LET birthdate == extracted.val[1][1]
                    gender == extracted.val[2]
                    age == age_on(date_today, birthdate)
                    birth_place_code == str_slice(clean_value, 11, 15)
                    birth_place_info == get_municipality_info(birth_place_code)
                    foreign_born == is_foreign_country(birth_place_code)
                    birth_place_name == IF birth_place_info # None THEN Some(birth_place_info[1][1]) ELSE None
                    birth_place_province == IF birth_place_info # None THEN Some(birth_place_info[1][2]) ELSE None
                IN  IF is_underage(check_adult, age, minimum_age)
                    THEN Return(CodiceFiscaleValidationResult(FALSE, Some("tax_id_cf_underage"),
                                    Some(clean_value), Some(birthdate), Some(age), gender,
                                    Some(birth_place_code), birth_place_name,
                                    birth_place_province, Some(foreign_born)))
                    ELSE Return(CodiceFiscaleValidationResult(TRUE, None,
                                    Some(clean_value), Some(birthdate), Some(age), gender,
                                    Some(birth_place_code), birth_place_name,
                                    birth_place_province, Some(foreign_born)))

----------------------------------------------------------------------------
(* validators.py: PartitaIvaValidator *)

\* characters for which str.isdigit() is true: the decimal digits, and
\* digit characters such as SUPERSCRIPT TWO that int() does not accept
IsdigitChars == DigitChars \cup { "²" }

\* s.isdigit()
str_isdigit(s) == s # <<>> /\ \A i \in DOMAIN s : s[i] \in IsdigitChars

RECURSIVE filter_isdigit(_)
\* "".join(filter(str.isdigit, s))
filter_isdigit(s) ==
    IF s = <<>> THEN <<>>
    ELSE IF Head(s) \in IsdigitChars THEN <<Head(s)>> \o filter_isdigit(Tail(s))
    ELSE filter_isdigit(Tail(s))

RECURSIVE piva_check_digit_total_doubling_even_indexes(_, _)
\* as the loop of _validate_check_digit, doubling at the even indexes
piva_check_digit_total_doubling_even_indexes(vat_number, n) ==
    IF n = 0 THEN 0
    ELSE LET d == int_of_str(<< vat_number[n] >>).val
             doubled == d * 2
         IN  piva_check_digit_total_doubling_even_indexes(vat_number, n - 1)
             + (IF (n - 1) % 2 = 1 THEN d
                ELSE IF doubled >= 10 THEN doubled - 9
                ELSE doubled)

RECURSIVE piva_check_digit_total_subtracting_10(_, _)
\* as the loop of _validate_check_digit, with doubled -= 10
piva_check_digit_total_subtracting_10(vat_number, n) ==
    IF n = 0 THEN 0
    ELSE LET d == int_of_str(<< vat_number[n] >>).val
             doubled == d * 2
         IN  piva_check_digit_total_subtracting_10(vat_number, n - 1)
             + (IF (n - 1) % 2 = 0 THEN d
                ELSE IF doubled >= 10 THEN doubled - 10
                ELSE doubled)

RECURSIVE piva_check_digit_total(_, _)
\* the loop of _validate_check_digit over vat_number[0:n], every int(digit) defined
piva_check_digit_total(vat_number, n) ==
    IF n = 0 THEN 0
    ELSE LET d == int_of_str(<< vat_number[n] >>).val
             doubled == d * 2
         IN  piva_check_digit_total(vat_number, n - 1)
             + (IF (n - 1) % 2 = 0 THEN d
                ELSE IF doubled >= 10 THEN doubled - 9
                ELSE doubled)

PartitaIvaValidator_validate_check_digit(vat_number) ==
    IF Len(vat_number) # 11 \/ ~str_isdigit(vat_number) THEN Return(FALSE)
    ELSE IF \E i \in DOMAIN vat_number : int_of_str(<< vat_number[i] >>).exc # "none"
    THEN Raise("ValueError")
    ELSE Return(piva_check_digit_total(vat_number, Len(vat_number)) % 10 = 0)

\* as validate, with the province code read from clean_value[8:11]
validate_with_province_code_one_later(value) ==
    LET clean_value == filter_isdigit(str_strip(value))
    IN  IF Len(clean_value) # 11
        THEN Return(PartitaIvaValidationResult(FALSE, Some("tax_id_piva_invalid_length"),
                        Some(clean_value), None, None))
        ELSE
        LET check == PartitaIvaValidator_validate_check_digit(clean_value)
        IN  IF check.exc # "none" THEN check
            ELSE IF ~check.val
            THEN Return(PartitaIvaValidationResult(FALSE, Some("tax_id_piva_invalid_check_digit"),
                            Some(clean_value), None, None))
            ELSE
            LET province_code == str_slice(clean_value, 8, 11)
                is_temporary == str_startswith(clean_value, << "9", "9" >>)
            IN  Return(PartitaIvaValidationResult(TRUE, None, Some(clean_value),
                            Some(is_temporary), Some(province_code)))

PartitaIvaValidator_validate(value) ==
    LET clean_value == filter_isdigit(str_strip(value))
    IN  IF Len(clean_value) # 11
        THEN Return(PartitaIvaValidationResult(FALSE, Some("tax_id_piva_invalid_length"),
                        Some(clean_value), None, None))
        ELSE
        LET check == PartitaIvaValidator_validate_check_digit(clean_value)
        IN  IF check.exc # "none" THEN check
            ELSE IF ~check.val
            THEN Return(PartitaIvaValidationResult(FALSE, Some("tax_id_piva_invalid_check_digit"),
                            Some(clean_value), None, None))
            ELSE
            LET province_code == str_slice(clean_value, 7, 10)
                is_temporary == str_startswith(clean_value, << "9", "9" >>)
            IN  Return(PartitaIvaValidationResult(TRUE, None, Some(clean_value),
                            Some(is_temporary), Some(province_code)))

----------------------------------------------------------------------------
(* validators.py: CodiceFiscaleGenerator *)

VOWELS == << "A", "E", "I", "O", "U" >>

CONSONANTS ==
    << "B", "C", "D", "F", "G", "H", "J", "K", "L", "M", "N", "P", "Q", "R",
       "S", "T", "V", "W", "X", "Y", "Z" >>

\* c.isalpha()
char_isalpha(c) ==
    c \in UpperLetters \cup LowerLetters \cup Range(ACCENTED_UPPERCASE) \cup Range(ACCENTED_LOWERCASE)

RECURSIVE str_filter(_, _)
\* "".join(c for c in value if c in keep)
str_filter(value, keep) ==
    IF value = <<>> THEN <<>>
    ELSE IF Head(value) \in keep THEN <<Head(value)>> \o str_filter(Tail(value), keep)
    ELSE str_filter(Tail(value), keep)

CodiceFiscaleGenerator_clean_string(value) ==
    LET u == str_upper(value)
    IN  str_filter(u, { c \in Range(u) : char_isalpha(c) })

CodiceFiscaleGenerator_extract_consonants(value) == str_filter(value, Range(CONSONANTS))

CodiceFiscaleGenerator_extract_vowels(value) == str_filter(value, Range(VOWELS))

\* "X" * n
str_repeat_X(n) == [ i \in 1..n |-> "X" ]

\* code, then vowels[: 3 - len(code)] and "X" * (3 - len(code)) while it is short
pad_with_vowels_and_X(code, vowels) ==
    LET code2 == IF Len(code) < 3 THEN code \o str_slice(vowels, 0, 3 - Len(code)) ELSE code
        code3 == IF Len(code2) < 3 THEN code2 \o str_repeat_X(3 - Len(code2)) ELSE code2
    IN  code3

\* as _encode_surname, with the name's rule for 4 or more consonants
encode_surname_as_a_name(surname) ==
    LET clean == CodiceFiscaleGenerator_clean_string(surname)
        consonants == CodiceFiscaleGenerator_extract_consonants(clean)
        vowels == CodiceFiscaleGenerator_extract_vowels(clean)
        code == IF Len(consonants) >= 4
                THEN << consonants[1], consonants[3], consonants[4] >>
                ELSE pad_with_vowels_and_X(str_slice(consonants, 0, 3), vowels)
    IN  str_slice(code, 0, 3)

CodiceFiscaleGenerator_encode_surname(surname) ==
    LET clean == CodiceFiscaleGenerator_clean_string(surname)
        consonants == CodiceFiscaleGenerator_extract_consonants(clean)
        vowels == CodiceFiscaleGenerator_extract_vowels(clean)
        code == pad_with_vowels_and_X(str_slice(consonants, 0, 3), vowels)
    IN  str_slice(code, 0, 3)

\* as _encode_name, with the surname's rule whatever the number of consonants
encode_name_as_a_surname(name) ==
    LET clean == CodiceFiscaleGenerator_clean_string(name)
        consonants == CodiceFiscaleGenerator_extract_consonants(clean)
        vowels == CodiceFiscaleGenerator_extract_vowels(clean)
        code == pad_with_vowels_and_X(str_slice(consonants, 0, 3), vowels)
    IN  str_slice(code, 0, 3)

CodiceFiscaleGenerator_encode_name(name) ==
    LET clean == CodiceFiscaleGenerator_clean_string(name)
        consonants == CodiceFiscaleGenerator_extract_consonants(clean)
        vowels == CodiceFiscaleGenerator_extract_vowels(clean)
        code == IF Len(consonants) >= 4
                THEN << consonants[1], consonants[3], consonants[4] >>
                ELSE pad_with_vowels_and_X(str_slice(consonants, 0, 3), vowels)
    IN  str_slice(code, 0, 3)

RECURSIVE str_of_int(_)
\* str(n), n >= 0
str_of_int(n) ==
    IF n < 10 THEN << ASCII_DIGITS[n + 1] >>
    ELSE str_of_int(n \div 10) \o << ASCII_DIGITS[(n % 10) + 1] >>

\* s[-2:]
str_last2(s) == IF Len(s) <= 2 THEN s ELSE SubSeq(s, Len(s) - 1, Len(s))

\* f"{n:02d}", n >= 0
format_02d(n) == IF n < 10 THEN << "0" >> \o str_of_int(n) ELSE str_of_int(n)

\* as _encode_day, with the 40 of a female day left out
encode_day_without_offset(day, gender) == format_02d(day)

CodiceFiscaleGenerator_encode_day(day, gender) ==
    format_02d(IF gender = "F" THEN day + 40 ELSE day)

RECURSIVE calculate_check_digit_total(_, _)
\* the loop of _calculate_check_digit over cf_partial[0:n]
calculate_check_digit_total(cf_partial, n) ==
    IF n = 0 THEN 0
    ELSE calculate_check_digit_total(cf_partial, n - 1)
         + (IF (n - 1) % 2 = 0
            THEN dict_get(CF_ODD_VALUES, cf_partial[n], 0)
            ELSE dict_get(CF_EVEN_VALUES, cf_partial[n], 0))

CodiceFiscaleGenerator_calculate_check_digit(cf_partial) ==
    chr_from_A(calculate_check_digit_total(cf_partial, Len(cf_partial)) % 26)

\* the try block of generate; KeyError when the month has no code, and the
\* text of that KeyError is the month
generate_try(surname, name, birthdate, gender, birth_place_code) ==
    IF birthdate.month \notin DOMAIN CF_MONTH_CODES_REVERSE THEN Raise("KeyError")
    ELSE
    LET surname_code == CodiceFiscaleGenerator_encode_surname(surname)
        name_code == CodiceFiscaleGenerator_encode_name(name)
        year_code == str_last2(str_of_int(birthdate.year))
        month_code == << CF_MONTH_CODES_REVERSE[birthdate.month] >>
        day_code == CodiceFiscaleGenerator_encode_day(birthdate.day, gender)
        cf_partial == surname_code \o name_code \o year_code \o month_code \o day_code \o birth_place_code
        check_digit == CodiceFiscaleGenerator_calculate_check_digit(cf_partial)
        codice_fiscale == cf_partial \o << check_digit >>
    IN  Return(CodiceFiscaleGenerationResult(TRUE, None, Some(codice_fiscale)))

\* as generate, with the name checked before the surname
generate_checking_name_first(surname, name, birthdate, gender, birth_place_code) ==
    IF name = <<>> \/ str_strip(name) = <<>>
    THEN Return(CodiceFiscaleGenerationResult(FALSE, Some("cf_gen_invalid_name"), None))
    ELSE IF surname = <<>> \/ str_strip(surname) = <<>>
    THEN Return(CodiceFiscaleGenerationResult(FALSE, Some("cf_gen_invalid_surname"), None))
    ELSE IF gender \notin { "M", "F" }
    THEN Return(CodiceFiscaleGenerationResult(FALSE, Some("cf_gen_invalid_gender"), None))
    ELSE
    LET code == str_upper(str_strip(birth_place_code))
    IN  IF Len(code) # 4
        THEN Return(CodiceFiscaleGenerationResult(FALSE, Some("cf_gen_invalid_birth_place_code"), None))
        ELSE LET r == generate_try(surname, name, birthdate, gender, code)
             IN  IF r.exc \in { "ValueError", "KeyError" }
                 THEN Return(CodiceFiscaleGenerationResult(FALSE,
                                Some("cf_gen_error: " \o ToString(birthdate.month)), None))
                 ELSE r

CodiceFiscaleGenerator_generate(surname, name, birthdate, gender, birth_place_code) ==
    IF surname = <<>> \/ str_strip(surname) = <<>>
    THEN Return(CodiceFiscaleGenerationResult(FALSE, Some("cf_gen_invalid_surname"), None))
    ELSE IF name = <<>> \/ str_strip(name) = <<>>
    THEN Return(CodiceFiscaleGenerationResult(FALSE, Some("cf_gen_invalid_name"), None))
    ELSE IF gender \notin { "M", "F" }
    THEN Return(CodiceFiscaleGenerationResult(FALSE, Some("cf_gen_invalid_gender"), None))
    ELSE
    LET code == str_upper(str_strip(birth_place_code))
    IN  IF Len(code) # 4
        THEN Return(CodiceFiscaleGenerationResult(FALSE, Some("cf_gen_invalid_birth_place_code"), None))
        ELSE LET r == generate_try(surname, name, birthdate, gender, code)
             IN  IF r.exc \in { "ValueError", "KeyError" }
                 THEN Return(CodiceFiscaleGenerationResult(FALSE,
                                Some("cf_gen_error: " \o ToString(birthdate.month)), None))
                 ELSE r

----------------------------------------------------------------------------
(* validators.py: the lazily created instances and the convenience functions *)

\* _ValidatorInstances.get_cf_validator(): the class attribute after the call
get_cf_validator == IF cf_validator = None THEN Some("CodiceFiscaleValidator") ELSE cf_validator

\* _ValidatorInstances.get_piva_validator()
get_piva_validator == IF piva_validator = None THEN Some("PartitaIvaValidator") ELSE piva_validator

\* _GeneratorInstances.get_cf_generator()
get_cf_generator == IF cf_generator = None THEN Some("CodiceFiscaleGenerator") ELSE cf_generator

NoCall == [op |-> "none", args |-> None, outcome |-> Return(None)]

LastCall == [op |-> op, args |-> args, outcome |-> outcome]

\* how many times midnight may pass in a session
MaxMidnights == 1

\* what date.today() may return later in a call: today, or tomorrow when
\* midnight passes during the call
later_today == { today } \cup (IF midnights < MaxMidnights THEN { tomorrow(today) } ELSE {})

\* the clock over a validate call that began on today and read date_today last
clock_over_call(date_today) ==
    /\ call_date' = Some(today)
    /\ today' = date_today
    /\ midnights' = IF date_today = today THEN midnights ELSE midnights + 1

validate_codice_fiscale(value, check_adult, minimum_age) ==
    /\ cf_validator' = get_cf_validator
    /\ op' = "validate_codice_fiscale"
    /\ args' = [value |-> value, check_adult |-> check_adult, minimum_age |-> minimum_age]
    /\ \E date_today \in later_today :
          /\ outcome' = CodiceFiscaleValidator_validate(value, check_adult, minimum_age, today, date_today)
          /\ clock_over_call(date_today)
    /\ prev' = LastCall
    /\ UNCHANGED << threads, piva_validator, cf_generator >>

validate_partita_iva(value) ==
    /\ piva_validator' = get_piva_validator
    /\ op' = "validate_partita_iva"
    /\ args' = [value |-> value]
    /\ outcome' = PartitaIvaValidator_validate(value)
    /\ prev' = LastCall
    /\ UNCHANGED << today, call_date, midnights, threads, cf_validator, cf_generator >>

generate_codice_fiscale(surname, name, birthdate, gender, birth_place_code) ==
    /\ cf_generator' = get_cf_generator
    /\ op' = "generate_codice_fiscale"
    /\ args' = [surname |-> surname, name |-> name, birthdate |-> birthdate,
                gender |-> gender, birth_place_code |-> birth_place_code]
    /\ outcome' = CodiceFiscaleGenerator_generate(surname, name, birthdate, gender, birth_place_code)
    /\ prev' = LastCall
    /\ UNCHANGED << today, call_date, midnights, threads, cf_validator, piva_validator >>

----------------------------------------------------------------------------
(* comuni.py: get_cadastral_code *)

get_cadastral_code(municipality_name) ==
    LET name_upper == str_upper(municipality_name)
        is_named(entry) == entry[2] = name_upper
        found == SelectSeq(CODICI_CATASTALI, is_named)
    IN  IF found = <<>> THEN None ELSE Some(found[1][1])

----------------------------------------------------------------------------
(* cli.py: cli_args is args, the argparse.Namespace of the command line *)

\* the %m directive: 1[0-2]|0[1-9]|[1-9]
strptime_is_month(s) ==
    \/ Len(s) = 1 /\ s[1] \in DigitChars \ { "0" }
    \/ Len(s) = 2 /\ s[1] \in DigitChars /\ s[2] \in DigitChars /\ int_of_digits(s) \in 1..12

\* the %d directive: 3[0-1]|[1-2]\d|0[1-9]|[1-9]| [1-9]
strptime_is_day(s) ==
    \/ Len(s) = 1 /\ s[1] \in DigitChars \ { "0" }
    \/ Len(s) = 2 /\ s[1] \in DigitChars /\ s[2] \in DigitChars /\ int_of_digits(s) \in 1..31
    \/ Len(s) = 2 /\ s[1] = " " /\ s[2] \in DigitChars \ { "0" }

\* datetime.strptime(s, "%Y-%m-%d").date(): four digits, a month and a day
\* between hyphens with nothing before or after, and a ValueError otherwise
strptime_date(s) ==
    LET parses == { p \in (1..2) \X (1..2) :
                      /\ Len(s) = 6 + p[1] + p[2]
                      /\ \A i \in 1..4 : s[i] \in DigitChars
                      /\ s[5] = "-"
                      /\ strptime_is_month(SubSeq(s, 6, 5 + p[1]))
                      /\ s[6 + p[1]] = "-"
                      /\ strptime_is_day(SubSeq(s, 7 + p[1], Len(s))) }
    IN  IF parses = {} THEN Raise("ValueError")
        ELSE LET p == CHOOSE q \in parses : TRUE
             IN  date(int_of_digits(SubSeq(s, 1, 4)),
                      int_of_digits(SubSeq(s, 6, 5 + p[1])),
                      int_of_digits(str_strip(SubSeq(s, 7 + p[1], Len(s)))))

\* not x, for an optional str: None and "" are false
is_falsy(x) == x = None \/ x = Some(<<>>)

\* return 0 if result.is_valid, return 1 otherwise; an exception of the call propagates
exit_code_of(result) ==
    IF result.exc # "none" THEN result
    ELSE Return(IF result.val.is_valid THEN 0 ELSE 1)

validate_cf_command(cli_args, current_date, date_today) ==
    exit_code_of(CodiceFiscaleValidator_validate(cli_args.value, cli_args.check_adult, cli_args.minimum_age,
                                                 current_date, date_today))

\* as validate_piva_command, returning 0 whatever the result
validate_piva_command_returning_0(cli_args) ==
    LET result == PartitaIvaValidator_validate(cli_args.value)
    IN  IF result.exc # "none" THEN result ELSE Return(0)

validate_piva_command(cli_args) ==
    exit_code_of(PartitaIvaValidator_validate(cli_args.value))

\* the arguments generate_cf_command passes to generate_codice_fiscale, or
\* None when it returns 1 before the call
generate_cf_arguments(cli_args) ==
    LET birthdate == strptime_date(cli_args.birthdate)
        gender == str_upper(cli_args.gender)
        by_name == is_falsy(cli_args.birth_place_code) /\ ~is_falsy(cli_args.birth_place)
        code == get_cadastral_code(cli_args.birth_place[1])
        birth_place_code == IF by_name THEN code ELSE cli_args.birth_place_code
    IN  IF birthdate.exc = "ValueError" THEN None
        ELSE IF gender \notin { << "M" >>, << "F" >> } THEN None
        ELSE IF by_name /\ is_falsy(code) THEN None
        ELSE IF is_falsy(birth_place_code) THEN None
        ELSE Some([surname |-> cli_args.surname, name |-> cli_args.name, birthdate |-> birthdate.val,
                   gender |-> gender[1], birth_place_code |-> birth_place_code[1]])

generate_cf_command(cli_args) ==
    LET call == generate_cf_arguments(cli_args)
    IN  IF call = None THEN Return(1)
        ELSE exit_code_of(CodiceFiscaleGenerator_generate(call[1].surname, call[1].name,
                call[1].birthdate, call[1].gender, call[1].birth_place_code))

search_municipality_command(cli_args) ==
    IF search_municipality(cli_args.query) = <<>> THEN Return(1) ELSE Return(0)

\* main(argv), from parse_args on
main(cli_args) ==
    /\ op' = "main"
    /\ args' = cli_args
    /\ IF cli_args.command = Some("validate-cf")
       THEN \E date_today \in later_today :
               /\ outcome' = validate_cf_command(cli_args, today, date_today)
               /\ clock_over_call(date_today)
       ELSE
       /\ UNCHANGED << today, call_date, midnights >>
       /\ outcome' =
          IF cli_args.command = None THEN Return(0)
          ELSE IF cli_args.command = Some("validate-piva") THEN validate_piva_command(cli_args)
          ELSE IF cli_args.command = Some("generate-cf") THEN generate_cf_command(cli_args)
          ELSE IF cli_args.command = Some("search-municipality") THEN search_municipality_command(cli_args)
          ELSE Return(1)
    /\ cf_validator' = IF cli_args.command = Some("validate-cf") THEN get_cf_validator ELSE cf_validator
    /\ piva_validator' = IF cli_args.command = Some("validate-piva") THEN get_piva_validator ELSE piva_validator
    /\ cf_generator' = IF cli_args.command = Some("generate-cf") /\ generate_cf_arguments(cli_args) # None
                        THEN get_cf_generator ELSE cf_generator
    /\ prev' = LastCall
    /\ UNCHANGED threads

----------------------------------------------------------------------------
(* Bounds and the inputs drawn within them *)

\* how many of TODAY_SAMPLES date.today() may be
NumTodays == 3

\* how many threads call the convenience functions at once
NumThreads == 2

Threads == 1..NumThreads

\* a thread that is in no call; dates is what date.today() has returned to the
\* thread's call, first in _extract_birthdate_and_gender, then in validate
Idle == [pc |-> "idle", call |-> None, instance |-> None, dates |-> <<>>, outcome |-> Return(None)]

\* how many of YEAR_FIELD_SAMPLES a validated code's year field may be
NumYearFields == 8

First(samples, n) == { samples[i] : i \in 1..Min(n, Len(samples)) }

Date(y, m, d) == [year |-> y, month |-> m, day |-> d]

TODAY_SAMPLES ==
    << Date(2025, 6, 15), Date(2024, 2, 29), Date(2025, 12, 31), Date(2100, 1, 1), Date(2000, 12, 31) >>

Todays == First(TODAY_SAMPLES, NumTodays)

YEAR_FIELD_SAMPLES ==
    << <<"8","5">>, <<"2","5">>, <<"3","0">>, <<"1","0">>, <<"0","0">>, <<"U","R">>,
       <<"A","5">>, <<"2","6">>, <<"2","4">>, <<"9","9">>, <<"L","L">>, <<"2","B">> >>

YearFields == First(YEAR_FIELD_SAMPLES, NumYearFields)

\* every two-digit day field, and fields with omocodia letters and other letters
DayFields ==
    { << a, b >> : a \in DigitChars, b \in DigitChars }
    \cup { <<"0","M">>, <<"Q","M">>, <<"T","N">>, <<"A","1">>, <<"1","B">> }

NAME_CODES == << "R", "S", "S", "M", "R", "A" >>

ROMA == << "H", "5", "0", "1" >>

\* the 15 characters followed by the check character of their omocodia-decoded form
with_check_character(cf_partial) ==
    cf_partial \o << CodiceFiscaleGenerator_calculate_check_digit(
                        CodiceFiscaleValidator_decode_omocodia(cf_partial).val) >>

CfCall(value, check_adult, minimum_age) ==
    [value |-> value, check_adult |-> check_adult, minimum_age |-> minimum_age]

\* codes with a right check character, over every month letter and day field,
\* in a common year and in a leap year
DateFieldCalls ==
    { CfCall(with_check_character(NAME_CODES \o y \o << m >> \o d \o ROMA), FALSE, MINIMUM_AGE_YEARS) :
        y \in { <<"8","5">>, <<"0","0">> }, m \in UpperLetters, d \in DayFields }

\* codes with a right check character, over the year fields
YearFieldCalls ==
    { CfCall(with_check_character(NAME_CODES \o y \o << m >> \o d \o ROMA), FALSE, MINIMUM_AGE_YEARS) :
        y \in YearFields, m \in { "A", "B", "M" },
        d \in { <<"0","1">>, <<"2","9">>, <<"6","9">>, <<"0","M">> } }

\* a code validate accepts: Mario Rossi, 1 August 1985, Roma
RSSMRA85M01H501Q == with_check_character(NAME_CODES \o <<"8","5">> \o <<"M">> \o <<"0","1">> \o ROMA)

\* s with the character at 0-based position pos replaced by c
str_replace_at(s, pos, c) == [ i \in 1..Len(s) |-> IF i = pos + 1 THEN c ELSE s[i] ]

\* too short, too long, or with a character outside a position's class
MalformedValues ==
    { SubSeq(RSSMRA85M01H501Q, 1, n) : n \in 0..15 }
    \cup { RSSMRA85M01H501Q \o << c >> : c \in { "A", "1" } }
    \cup { str_replace_at(RSSMRA85M01H501Q, pos, c) :
             pos \in { p \in 0..15 : CF_PATTERN[p + 1] = UpperLetters }, c \in { "1", "'" } }
    \cup { str_replace_at(RSSMRA85M01H501Q, pos, "'") : pos \in 0..15 }
    \cup { with_check_character(SubSeq(str_replace_at(RSSMRA85M01H501Q, pos, c), 1, 15)) :
             pos \in 0..14, c \in { "1", "'", "B" } }
    \cup { << "1","2","3","4","5","6","7","8","9","0","1","2","3","4","5","A" >> }

MalformedCalls == { CfCall(v, FALSE, MINIMUM_AGE_YEARS) : v \in MalformedValues }

PLACE_SAMPLES ==
    << ROMA, << "H","5","L","M" >>, << "Z","4","0","4" >>, << "X","9","9","9" >>,
       << "H","R","S","V" >>, << "Z","N","P","Q" >> >>

Places == Range(PLACE_SAMPLES)

\* every check character, right or wrong, and a digit in its place
CheckCharacterCalls ==
    { CfCall(NAME_CODES \o y \o << "M" >> \o d \o place \o << c >>, FALSE, MINIMUM_AGE_YEARS) :
        y \in YearFields, d \in { <<"0","1">>, <<"Q","M">> },
        place \in { ROMA, << "H","5","L","M" >> }, c \in UpperLetters \cup { "7" } }

MinimumAges == { MINIMUM_AGE_YEARS, 0, 40, 41 }

\* birthdays before, on and after 15 June, with and without the age check
AgeCalls ==
    { CfCall(with_check_character(NAME_CODES \o y \o << m >> \o d \o place), check_adult, minimum_age) :
        y \in YearFields, m \in { "E", "H", "T" }, d \in { <<"1","4">>, <<"1","5">>, <<"5","6">> },
        place \in Places, check_adult \in BOOLEAN, minimum_age \in MinimumAges }

\* s in lower case
str_lower(s) ==
    [ i \in 1..Len(s) |->
        IF s[i] \in UpperLetters THEN ASCII_LOWERCASE[IndexOf(ASCII_UPPERCASE, s[i])] ELSE s[i] ]

\* s with c inserted before 0-based position pos
str_insert_at(s, pos, c) == SubSeq(s, 1, pos) \o c \o SubSeq(s, pos + 1, Len(s))

\* the ways a caller may write the value v: case, surrounding whitespace,
\* whitespace between the fields
Written(v) ==
    { v, str_lower(v) }
    \cup { lead \o v \o trail :
             lead \in { <<>>, << " " >>, << "\t" >> }, trail \in { <<>>, << "\n" >>, << " ", " " >> } }
    \cup { str_insert_at(str_insert_at(v, 6, w), 3, w) : w \in { << " " >>, << " ", " " >> } }
    \cup { str_insert_at(v, pos, << w >>) : pos \in { 3, 11 } \cap 0..Len(v), w \in WhitespaceChars }

WrittenValues ==
    UNION { Written(v) : v \in
              { RSSMRA85M01H501Q,
                str_replace_at(RSSMRA85M01H501Q, 15, "A"),
                SubSeq(RSSMRA85M01H501Q, 1, 15),
                with_check_character(NAME_CODES \o <<"U","R">> \o <<"B">> \o <<"3","0">> \o ROMA) } }

WrittenCalls == { CfCall(v, FALSE, MINIMUM_AGE_YEARS) : v \in WrittenValues }

CfCalls == DateFieldCalls \cup YearFieldCalls \cup CheckCharacterCalls \cup AgeCalls \cup MalformedCalls \cup WrittenCalls

----------------------------------------------------------------------------
(* The session: the caller makes calls; midnight may pass between the two
   date.today() reads of a validate call, and the later calls see the new date *)

Init ==
    /\ today \in Todays
    /\ call_date = None
    /\ midnights = 0
    /\ cf_validator = None
    /\ piva_validator = None
    /\ cf_generator = None
    /\ op = NoCall.op
    /\ args = NoCall.args
    /\ outcome = NoCall.outcome
    /\ prev = NoCall
    /\ threads = [ t \in Threads |-> Idle ]

\* one validate_codice_fiscale call
ValidateCf ==
    /\ op = "none"
    /\ \E c \in CfCalls :
          validate_codice_fiscale(c.value, c.check_adult, c.minimum_age)

NextValidate == ValidateCf

SpecValidate == Init /\ [][NextValidate]_vars

----------------------------------------------------------------------------
(* A second call on a value derived from the first call's *)

\* the value with every whitespace character removed, in upper case
normal_form(value) == str_upper(str_filter(value, Range(value) \ WhitespaceChars))

\* the digit at each of the 0-based positions replaced by its omocodia letter
omocodia_variant(cf, positions) ==
    [ i \in 1..Len(cf) |-> IF (i - 1) \in positions THEN CF_OMOCODIA_DIGITS[cf[i]] ELSE cf[i] ]

\* the omocodia positions of cf that hold a digit
digit_positions(cf) == { p \in Range(OMOCODIA_POSITIONS) : cf[p + 1] \in DigitChars }

VariantBaseCalls ==
    { CfCall(with_check_character(NAME_CODES \o y \o << m >> \o d \o place), FALSE, MINIMUM_AGE_YEARS) :
        y \in YearFields, m \in { "B", "M" },
        d \in { <<"0","1">>, <<"4","1">>, <<"2","9">>, <<"0","M">> },
        place \in { ROMA, << "H","5","L","M" >> } }
    \cup WrittenCalls

\* the first call
ValidateBase ==
    /\ op = "none"
    /\ \E c \in VariantBaseCalls :
          validate_codice_fiscale(c.value, c.check_adult, c.minimum_age)

\* the same call on the value in normal form
RevalidateNormalForm ==
    /\ op = "validate_codice_fiscale"
    /\ prev.op = "none"
    /\ outcome.exc = "none"
    /\ validate_codice_fiscale(normal_form(args.value), args.check_adult, args.minimum_age)

\* the accepted code with another letter as its check character
ValidateOtherCheckCharacter ==
    /\ op = "validate_codice_fiscale"
    /\ prev.op = "none"
    /\ outcome.exc = "none"
    /\ outcome.val.is_valid
    /\ \E c \in UpperLetters \ { outcome.val.formatted_value[1][16] } :
          validate_codice_fiscale(str_replace_at(outcome.val.formatted_value[1], 15, c),
                                  args.check_adult, args.minimum_age)

\* the accepted code with some of its digits written as omocodia letters
ValidateOmocodiaVariant ==
    /\ op = "validate_codice_fiscale"
    /\ prev.op = "none"
    /\ outcome.exc = "none"
    /\ outcome.val.is_valid
    /\ \E positions \in SUBSET digit_positions(outcome.val.formatted_value[1]) :
          /\ positions # {}
          /\ validate_codice_fiscale(omocodia_variant(outcome.val.formatted_value[1], positions),
                                     args.check_adult, args.minimum_age)

NextVariants ==
    \/ ValidateBase
    \/ RevalidateNormalForm
    \/ ValidateOtherCheckCharacter
    \/ ValidateOmocodiaVariant

SpecVariants == Init /\ [][NextVariants]_vars

----------------------------------------------------------------------------
(* A call with the age check, and the same value again without it *)

\* the first call, with or without the age check
ValidateWithAgeCheck ==
    /\ op = "none"
    /\ \E c \in AgeCalls :
          validate_codice_fiscale(c.value, c.check_adult, c.minimum_age)

\* the same value with check_adult=False and any minimum_age
RevalidateWithoutAgeCheck ==
    /\ op = "validate_codice_fiscale"
    /\ prev.op = "none"
    /\ \E minimum_age \in MinimumAges :
          validate_codice_fiscale(args.value, FALSE, minimum_age)

NextAgeCheck == ValidateWithAgeCheck \/ RevalidateWithoutAgeCheck

SpecAgeCheck == Init /\ [][NextAgeCheck]_vars

----------------------------------------------------------------------------
(* Generation followed by validation of the generated code *)

\* how many of BIRTH_YEAR_SAMPLES a record's birth year may be
NumBirthYears == 8

BIRTH_YEAR_SAMPLES == << 1985, 2025, 1926, 1925, 2000, 1885, 2030, 5, 1900, 985, 2024, 2026, 99 >>

BirthYears == First(BIRTH_YEAR_SAMPLES, NumBirthYears)

\* every calendar date of those years on the sampled days
Birthdates ==
    { Date(y, m, d) : y \in BirthYears, m \in 1..12, d \in { 1, 10, 29, 31 } }
    \cap { b \in [year : BirthYears, month : 1..12, day : 1..31] : date(b.year, b.month, b.day).exc = "none" }

Surnames == { << "R","o","s","s","i" >>, << "B","o" >>, << "D","'","A","m","i","c","o" >> }

Names == { << "M","a","r","i","o" >>, << "R","o","b","e","r","t","o" >>, << "A","i" >> }

BirthPlaceCodes ==
    { ROMA, << "h","5","0","1" >>, << " ","Z","4","0","4" >>, << "1","2","3","4" >>,
      << "H","L","M","N" >>, << "H"," ","0","1" >>, << "H","5","'","1" >>, << "X","9","9","9" >>,
      << "h","a","b","c" >>, << "H","L","5","Q" >>, << "H","N","L","1" >>, << "H","5","0","M" >> }

Records ==
    { [surname |-> s, name |-> n, birthdate |-> b, gender |-> g, birth_place_code |-> p] :
        s \in { << "R","o","s","s","i" >> }, n \in { << "M","a","r","i","o" >> },
        b \in Birthdates, g \in { "M", "F" }, p \in BirthPlaceCodes }
    \cup
    { [surname |-> s, name |-> n, birthdate |-> b, gender |-> g, birth_place_code |-> p] :
        s \in Surnames, n \in Names, b \in { Date(1985, 8, 1), Date(2030, 2, 28) },
        g \in { "M", "F" }, p \in { ROMA, << "1","2","3","4" >> } }

\* records with blank names, other genders and birthplace codes of other lengths
UncheckedRecords ==
    { [surname |-> s, name |-> n, birthdate |-> b, gender |-> g, birth_place_code |-> p] :
        s \in { <<>>, << " " >>, << "\t", "\n" >>, << "R","o","s","s","i" >> },
        n \in { <<>>, << " ", " " >>, << "M","a","r","i","o" >> },
        b \in { Date(1985, 8, 1) },
        g \in { "M", "F", "X", "m", "f", "" },
        p \in { ROMA, <<>>, << " ", " " >>, << "H","5","0" >>, << "H","5","0","1","1" >>,
                << " ","h","5","0","1","\n" >>, << "H","5"," "," " >>, << "H"," ","5","0","1" >> } }

\* one generate_codice_fiscale call
Generate ==
    /\ op = "none"
    /\ \E r \in Records \cup UncheckedRecords :
          generate_codice_fiscale(r.surname, r.name, r.birthdate, r.gender, r.birth_place_code)

\* validate_codice_fiscale on the code just generated
ValidateGenerated ==
    /\ op = "generate_codice_fiscale"
    /\ outcome.exc = "none"
    /\ outcome.val.is_valid
    /\ validate_codice_fiscale(outcome.val.codice_fiscale[1], FALSE, MINIMUM_AGE_YEARS)

NextRoundTrip == Generate \/ ValidateGenerated

SpecRoundTrip == Init /\ [][NextRoundTrip]_vars

----------------------------------------------------------------------------
(* The generator's name codes, on a generator of the caller's own *)

\* how long a surname or given name may be
MaxNameLen == 4

\* how many of NAME_CHAR_SAMPLES a surname or given name may be written with
NumNameChars == 6

NAME_CHAR_SAMPLES == << "B", "r", "a", "t", "'", "O", "à", "N", " " >>

NameChars == First(NAME_CHAR_SAMPLES, NumNameChars)

NameStrings == UNION { [1..n -> NameChars] : n \in 0..MaxNameLen }

\* CodiceFiscaleGenerator()._encode_surname(surname)
EncodeSurname ==
    /\ op = "none"
    /\ \E surname \in NameStrings :
          /\ op' = "_encode_surname"
          /\ args' = [surname |-> surname]
          /\ outcome' = Return(CodiceFiscaleGenerator_encode_surname(surname))
    /\ prev' = LastCall
    /\ UNCHANGED << today, call_date, midnights, threads, cf_validator, piva_validator, cf_generator >>

\* CodiceFiscaleGenerator()._encode_name(name)
EncodeName ==
    /\ op = "none"
    /\ \E name \in NameStrings :
          /\ op' = "_encode_name"
          /\ args' = [name |-> name]
          /\ outcome' = Return(CodiceFiscaleGenerator_encode_name(name))
    /\ prev' = LastCall
    /\ UNCHANGED << today, call_date, midnights, threads, cf_validator, piva_validator, cf_generator >>

NextEncode == EncodeSurname \/ EncodeName

SpecEncode == Init /\ [][NextEncode]_vars

----------------------------------------------------------------------------
(* Searches of the municipality directory *)

\* how long a query made of QueryChars may be
MaxQueryLen == 2

\* how many of QUERY_CHAR_SAMPLES a query may be written with
NumQueryChars == 7

QUERY_CHAR_SAMPLES == << "A", "n", "O", "r", " ", "'", "à", "Z", "m" >>

QueryChars == First(QUERY_CHAR_SAMPLES, NumQueryChars)

\* the tests' queries in both cases, and every short string of QueryChars
Queries ==
    { << "M","I","L","A","N" >>, << "m","i","l","a","n" >>, << "S","a","n"," " >>,
      << "X","Y","Z","N","O","T","E","X","I","S","T" >>, << "C","i","t","t","a","'" >> }
    \cup UNION { [1..n -> QueryChars] : n \in 0..MaxQueryLen }

\* one search_municipality call
SearchMunicipality ==
    /\ op = "none"
    /\ \E partial_name \in Queries :
          /\ op' = "search_municipality"
          /\ args' = [partial_name |-> partial_name]
          /\ outcome' = Return(search_municipality(partial_name))
    /\ prev' = LastCall
    /\ UNCHANGED << today, call_date, midnights, threads, cf_validator, piva_validator, cf_generator >>

NextSearch == SearchMunicipality

SpecSearch == Init /\ [][NextSearch]_vars

----------------------------------------------------------------------------
(* Partita IVA validation *)

\* how many of PIVA_BODY_SAMPLES the first ten characters may be
NumPivaBodies == 6

Str10(a, b, c, d, e, f, g, h, i, j) == << a, b, c, d, e, f, g, h, i, j >>

PIVA_BODY_SAMPLES ==
    << Str10("1","2","3","4","5","6","7","8","9","0"),
       Str10("0","0","0","0","0","0","0","0","0","0"),
       Str10("9","9","1","2","3","4","5","0","0","1"),
       Str10("²","²","²","²","²","²","²","²","²","²"),
       Str10("1","2","3","4","5","²","7","8","9","0"),
       Str10("0","7","6","4","3","5","2","0","5","6"),
       Str10("9","8","7","6","5","4","3","2","1","0"),
       Str10("5","5","5","5","5","5","5","5","5","5") >>

PivaBodies == First(PIVA_BODY_SAMPLES, NumPivaBodies)

\* the ways a caller may write the eleven characters v
PivaWritten(v) ==
    { v, << "I", "T" >> \o v, << " " >> \o v \o << "\n" >>, SubSeq(v, 1, 3) \o << " " >> \o SubSeq(v, 4, Len(v)),
      SubSeq(v, 1, 10), v \o << "0" >>, SubSeq(v, 1, 5) \o << "'" >> \o SubSeq(v, 6, Len(v)),
      v \o << "²" >> }

PivaValues ==
    UNION { PivaWritten(b \o << c >>) : b \in PivaBodies, c \in IsdigitChars }
    \cup { <<>>, << " " >>, << "I", "T" >> }

\* one validate_partita_iva call
ValidatePiva ==
    /\ op = "none"
    /\ \E v \in PivaValues : validate_partita_iva(v)

NextPiva == ValidatePiva

SpecPiva == Init /\ [][NextPiva]_vars

----------------------------------------------------------------------------
(* A Partita IVA of eleven decimal digits, and the same with one digit replaced *)

DecimalPivaBodies == { b \in PivaBodies : \A i \in DOMAIN b : b[i] \in DigitChars }

\* validate_partita_iva on a ten-digit body followed by any digit
ValidateNumber ==
    /\ op = "none"
    /\ \E b \in DecimalPivaBodies, c \in DigitChars : validate_partita_iva(b \o << c >>)

\* validate_partita_iva on the number just accepted, with another digit at one position
ValidateWithOneDigitReplaced ==
    /\ op = "validate_partita_iva"
    /\ prev.op = "none"
    /\ outcome.exc = "none"
    /\ outcome.val.is_valid
    /\ \E pos \in 0..10 : \E d \in DigitChars \ { args.value[pos + 1] } :
          validate_partita_iva(str_replace_at(args.value, pos, d))

NextPivaDigits == ValidateNumber \/ ValidateWithOneDigitReplaced

SpecPivaDigits == Init /\ [][NextPivaDigits]_vars

----------------------------------------------------------------------------
(* Omocodia decoding, on a validator of the caller's own *)

\* at how many of the positions 5..15 another character is written
MaxReplaced == 2

REPLACEMENT_CHARS == { "L", "5", "A" }

RECURSIVE with_replacements(_, _, _)
\* cf with the characters of by, a function of 0-based positions, written at positions
with_replacements(cf, positions, by) ==
    IF positions = {} THEN cf
    ELSE LET pos == CHOOSE q \in positions : TRUE
         IN  with_replacements(str_replace_at(cf, pos, by[pos]), positions \ { pos }, by)

SixteenCharacters ==
    UNION { { with_replacements(RSSMRA85M01H501Q, positions, by) : by \in [positions -> REPLACEMENT_CHARS] } :
              positions \in { s \in SUBSET (5..15) : Cardinality(s) <= MaxReplaced } }

\* CodiceFiscaleValidator()._decode_omocodia(cf)
DecodeOmocodia ==
    /\ op = "none"
    /\ \E cf \in SixteenCharacters :
          /\ args' = [cf |-> cf]
          /\ outcome' = CodiceFiscaleValidator_decode_omocodia(cf)
    /\ op' = "_decode_omocodia"
    /\ prev' = LastCall
    /\ UNCHANGED << today, call_date, midnights, threads, cf_validator, piva_validator, cf_generator >>

\* _decode_omocodia on the value it returned
DecodeDecoded ==
    /\ op = "_decode_omocodia"
    /\ prev.op = "none"
    /\ outcome.exc = "none"
    /\ args' = [cf |-> outcome.val]
    /\ outcome' = CodiceFiscaleValidator_decode_omocodia(outcome.val)
    /\ op' = "_decode_omocodia"
    /\ prev' = LastCall
    /\ UNCHANGED << today, call_date, midnights, threads, cf_validator, piva_validator, cf_generator >>

NextDecode == DecodeOmocodia \/ DecodeDecoded

SpecDecode == Init /\ [][NextDecode]_vars

----------------------------------------------------------------------------
(* One call of any of the three convenience functions *)

NextResults == ValidateCf \/ ValidatePiva \/ Generate

SpecResults == Init /\ [][NextResults]_vars

----------------------------------------------------------------------------
(* Concurrent callers of the convenience functions.  A call is the steps of
   get_cf_validator (or get_piva_validator, get_cf_generator) followed by the
   method call on the instance it returned; the steps of different threads
   interleave. *)

\* the class attribute that the function's instance getter reads and writes
instance_attribute(function) ==
    IF function = "validate_codice_fiscale" THEN cf_validator
    ELSE IF function = "validate_partita_iva" THEN piva_validator
    ELSE cf_generator

\* the method call on the instance obtained
call_on(instance, call, current_date, date_today) ==
    IF instance = None THEN Raise("AttributeError")
    ELSE IF call.function = "validate_codice_fiscale"
    THEN CodiceFiscaleValidator_validate(call.value, call.check_adult, call.minimum_age,
                                         current_date, date_today)
    ELSE IF call.function = "validate_partita_iva"
    THEN PartitaIvaValidator_validate(call.value)
    ELSE CodiceFiscaleGenerator_generate(call.surname, call.name, call.birthdate, call.gender,
                                         call.birth_place_code)

\* a code of the first of January of the year 26
RSSMRA26A01H501M == << "R","S","S","M","R","A","2","6","A","0","1","H","5","0","1","M" >>

ConcurrentCalls ==
    { [function |-> "validate_codice_fiscale", value |-> RSSMRA26A01H501M, check_adult |-> TRUE,
       minimum_age |-> 100] }
    \cup { [function |-> "validate_partita_iva", value |-> PIVA_BODY_SAMPLES[1] \o << "3" >>] }
    \cup { [function |-> "generate_codice_fiscale", surname |-> << "R","o","s","s","i" >>,
            name |-> << "M","a","r","i","o" >>, birthdate |-> Date(1985, 8, 1), gender |-> "M",
            birth_place_code |-> ROMA] }

\* a thread enters a convenience function
BeginCall(t) ==
    /\ threads[t].pc \in { "idle", "returned" }
    /\ \E call \in ConcurrentCalls :
          threads' = [threads EXCEPT ![t] = [Idle EXCEPT !.pc = "test", !.call = Some(call)]]
    /\ UNCHANGED << today, call_date, midnights, cf_validator, piva_validator, cf_generator, op, args, outcome, prev >>

\* if cls._cf_validator is None:
TestInstance(t) ==
    /\ threads[t].pc = "test"
    /\ threads' = [threads EXCEPT ![t].pc =
                      IF instance_attribute(threads[t].call[1].function) = None
                      THEN "create" ELSE "get"]
    /\ UNCHANGED << today, call_date, midnights, cf_validator, piva_validator, cf_generator, op, args, outcome, prev >>

\* cls._cf_validator = CodiceFiscaleValidator()
CreateInstance(t) ==
    /\ threads[t].pc = "create"
    /\ LET function == threads[t].call[1].function
       IN  /\ cf_validator' = IF function = "validate_codice_fiscale"
                              THEN Some("CodiceFiscaleValidator") ELSE cf_validator
           /\ piva_validator' = IF function = "validate_partita_iva"
                                THEN Some("PartitaIvaValidator") ELSE piva_validator
           /\ cf_generator' = IF function = "generate_codice_fiscale"
                              THEN Some("CodiceFiscaleGenerator") ELSE cf_generator
    /\ threads' = [threads EXCEPT ![t].pc = "get"]
    /\ UNCHANGED << today, call_date, midnights, op, args, outcome, prev >>

\* return cls._cf_validator
instance_returned(t) == instance_attribute(threads[t].call[1].function)

GetInstance(t) ==
    /\ threads[t].pc = "get"
    /\ threads' = [threads EXCEPT ![t].pc = "call", ![t].instance = instance_returned(t)]
    /\ UNCHANGED << today, call_date, midnights, cf_validator, piva_validator, cf_generator, op, args, outcome, prev >>

\* as the current_year of the call, kept where the calls of all threads write
\* it: what another thread's call has read, when one has
current_date_of_another_call(t) ==
    LET others == { u \in Threads \ { t } : threads[u].dates # <<>> }
    IN  IF others = {} THEN threads[t].dates[1]
        ELSE threads[CHOOSE u \in others : TRUE].dates[1]

\* current_year = date.today().year, a local variable of the thread's own call
current_date_of_the_call(t) == threads[t].dates[1]

\* .validate(...) or .generate(...) on the instance.  A validate call that
\* decodes a birthdate has read date.today() in _extract_birthdate_and_gender
\* and goes on to "Calculate age"; every other call returns.
CallInstance(t) ==
    /\ threads[t].pc = "call"
    /\ \E returned \in { call_on(threads[t].instance, threads[t].call[1], today, today) } :
          \E reads_again \in { /\ threads[t].call[1].function = "validate_codice_fiscale"
                                /\ returned.exc = "none"
                                /\ returned.val.birthdate # None } :
             threads' = [threads EXCEPT
                           ![t].pc = IF reads_again THEN "age" ELSE "returned",
                           ![t].dates = IF reads_again THEN << today >> ELSE <<>>,
                           ![t].outcome = IF reads_again THEN Idle.outcome ELSE returned]
    /\ UNCHANGED << today, call_date, midnights, cf_validator, piva_validator, cf_generator, op, args, outcome, prev >>

\* today = date.today() in validate, the rest of validate and the function's return
CalculateAge(t) ==
    /\ threads[t].pc = "age"
    /\ threads' = [threads EXCEPT
                      ![t].pc = "returned",
                      ![t].dates = << threads[t].dates[1], today >>,
                      ![t].outcome = call_on(threads[t].instance, threads[t].call[1],
                                             current_date_of_the_call(t), today)]
    /\ UNCHANGED << today, call_date, midnights, cf_validator, piva_validator, cf_generator, op, args, outcome, prev >>

\* midnight passes: date.today() returns the next date to every thread
Midnight ==
    /\ midnights < MaxMidnights
    /\ today' = tomorrow(today)
    /\ midnights' = midnights + 1
    /\ UNCHANGED << call_date, cf_validator, piva_validator, cf_generator, op, args, outcome, prev, threads >>

NextConcurrent ==
    \/ \E t \in Threads :
          \/ BeginCall(t)
          \/ TestInstance(t)
          \/ CreateInstance(t)
          \/ GetInstance(t)
          \/ CallInstance(t)
          \/ CalculateAge(t)
    \/ Midnight

\* the callers begin on the last day of a year
InitConcurrent == Init /\ today = Date(2025, 12, 31)

SpecConcurrent == InitConcurrent /\ [][NextConcurrent]_vars

----------------------------------------------------------------------------
(* Command lines *)

\* how many of BIRTHDATE_TEXT_SAMPLES a --birthdate may be
NumBirthdateTexts == 6

Text(a, b, c, d, e, f, g, h, i, j) == << a, b, c, d, e, f, g, h, i, j >>

BIRTHDATE_TEXT_SAMPLES ==
    << Text("1","9","8","5","-","0","8","-","0","1"), Text("0","1","-","0","8","-","1","9","8","5"),
       << "1","9","8","5","-","8","-","1" >>, Text("1","9","8","5","-","0","2","-","3","0"),
       Text("0","0","0","5","-","1","2","-","3","1"), Text("1","9","8","5","-","0","8","-"," ","1"),
       Text("1","9","8","5","-","1","3","-","0","1"), Text("0","0","0","0","-","0","8","-","0","1"),
       Text("1","9","8","5","/","0","8","/","0","1"), <<>>,
       Text("1","9","8","5","-","0","8","-","0","1") \o << " " >>,
       << "9","8","5","-","0","8","-","0","1" >> >>

BirthdateTexts == First(BIRTHDATE_TEXT_SAMPLES, NumBirthdateTexts)

ValidateCfCommandLines ==
    { [command |-> Some("validate-cf"), value |-> v, check_adult |-> c, minimum_age |-> m] :
        v \in { RSSMRA85M01H501Q, << "I","N","V","A","L","I","D" >>, str_lower(RSSMRA85M01H501Q),
                str_replace_at(RSSMRA85M01H501Q, 15, "A"), <<>>,
                with_check_character(NAME_CODES \o << "1","0","A","4","1" >> \o ROMA) },
        c \in BOOLEAN, m \in { MINIMUM_AGE_YEARS, 50 } }

ValidatePivaCommandLines ==
    { [command |-> Some("validate-piva"), value |-> v] :
        v \in UNION { PivaWritten(PIVA_BODY_SAMPLES[1] \o << c >>) : c \in { "1", "3" } }
               \cup { PIVA_BODY_SAMPLES[1] \o << "²" >> } }

GenerateCfCommandLines ==
    { [command |-> Some("generate-cf"), surname |-> s, name |-> << "M","a","r","i","o" >>,
       birthdate |-> b, gender |-> g, birth_place_code |-> c, birth_place |-> p] :
        s \in { << "R","o","s","s","i" >>, << " " >> },
        b \in BirthdateTexts,
        g \in { << "M" >>, << "m" >>, << "F" >>, << "X" >>, <<>>, << "M","F" >> },
        c \in { None, Some(<<>>), Some(ROMA), Some(<< "H","5","0" >>), Some(<< "H","5","'","1" >>) },
        p \in { None, Some(<<>>), Some(<< "R","O","M","A" >>), Some(<< "r","o","m","a" >>),
                Some(<< "R","o","m" >>), Some(<< "X","Y","Z" >>) } }

SearchMunicipalityCommandLines ==
    { [command |-> Some("search-municipality"), query |-> q, limit |-> 20] :
        q \in { << "R","O","M","A" >>, << "X","Y","Z","N","O","T","E","X","I","S","T","1","2","3" >> } }

CommandLines ==
    ValidateCfCommandLines \cup ValidatePivaCommandLines \cup GenerateCfCommandLines
    \cup SearchMunicipalityCommandLines \cup { [command |-> None] }

\* one run of the command-line tool
Main ==
    /\ op = "none"
    /\ \E a \in CommandLines : main(a)

NextCli == Main

SpecCli == Init /\ [][NextCli]_vars

----------------------------------------------------------------------------
(* The claims' vocabulary, stated apart from the code's definitions *)

IsCfValidation == op = "validate_codice_fiscale"

\* the second of two validate_codice_fiscale calls
IsSecondCfValidation == IsCfValidation /\ prev.op = "validate_codice_fiscale"

\* the current year in which the call resolved the century of the birth year
CurrentYear == call_date[1].year

\* date.today() has returned one date to every read of the session's calls
OnOneDate == midnights = 0

NoFieldsDecoded(result) ==
    /\ result.birthdate = None
    /\ result.age = None
    /\ result.gender = None
    /\ result.birth_place_code = None
    /\ result.birth_place_name = None
    /\ result.birth_place_province = None
    /\ result.is_foreign_born = None

\* 6 letters, 2 alphanumerics, 1 letter, 2 alphanumerics, 1 letter, 3 alphanumerics, 1 letter
HasCfShape(v) ==
    /\ Len(v) = 16
    /\ \A i \in 1..16 :
          IF i \in (1..6) \cup { 9, 12, 16 }
          THEN v[i] \in UpperLetters
          ELSE v[i] \in UpperLetters \cup DigitChars

\* the omocodia letter of each digit 0..9, in order
OmocodiaLetters == << "L", "M", "N", "P", "Q", "R", "S", "T", "U", "V" >>

\* the character at 1-based index i after omocodia decoding
DecodedChar(v, i) ==
    IF (i - 1) \in { 6, 7, 9, 10, 12, 13, 14 } /\ v[i] \in Range(OmocodiaLetters)
    THEN ASCII_DIGITS[IndexOf(OmocodiaLetters, v[i])]
    ELSE v[i]

RECURSIVE SumOfValues(_, _, _)
\* the sum of table's values of the decoded characters at the 0-based indexes
SumOfValues(v, table, indexes) ==
    IF indexes = {} THEN 0
    ELSE LET i == CHOOSE i \in indexes : TRUE
         IN  table[DecodedChar(v, i + 1)] + SumOfValues(v, table, indexes \ { i })

\* chr('A' + S mod 26) of a value that has the shape
CheckLetter(v) ==
    LET S == SumOfValues(v, CF_ODD_VALUES, { i \in 0..14 : i % 2 = 0 })
             + SumOfValues(v, CF_EVEN_VALUES, { i \in 0..14 : i % 2 = 1 })
    IN  ASCII_UPPERCASE[(S % 26) + 1]

MonthLetters == << "A", "B", "C", "D", "E", "H", "L", "M", "P", "R", "S", "T" >>

DigitValue(c) == IndexOf(ASCII_DIGITS, c) - 1

\* the two-digit number at 1-based indexes i, i + 1 after omocodia decoding
TwoDigits(v, i) == 10 * DigitValue(DecodedChar(v, i)) + DigitValue(DecodedChar(v, i + 1))

HasTwoDigits(v, i) == DecodedChar(v, i) \in DigitChars /\ DecodedChar(v, i + 1) \in DigitChars

\* the birth year of the two-digit year yy when the current year is Y
ResolvedYear(yy, Y) == IF yy > Y % 100 THEN 1900 + yy ELSE (Y \div 100) * 100 + yy

MonthLength(year, month) ==
    IF month = 2 /\ (year % 400 = 0 \/ (year % 4 = 0 /\ year % 100 # 0)) THEN 29
    ELSE << 31, 28, 31, 30, 31, 30, 31, 31, 30, 31, 30, 31 >>[month]

\* the date fields of a value that has the shape can be decoded in year Y
DateFieldsDecode(v, Y) ==
    /\ v[9] \in Range(MonthLetters)
    /\ HasTwoDigits(v, 7)
    /\ HasTwoDigits(v, 10)
    /\ LET dd == TwoDigits(v, 10)
           day == IF dd > 40 THEN dd - 40 ELSE dd
       IN  day \in 1..MonthLength(ResolvedYear(TwoDigits(v, 7), Y), IndexOf(MonthLetters, v[9]))

----------------------------------------------------------------------------
(* C1 *)

\* the record's birth year is the one the century rule resolves its last two digits to
BirthYearResolves(record) == ResolvedYear(record.birthdate.year % 100, CurrentYear) = record.birthdate.year

\* the birthplace code, trimmed and in upper case, is a letter followed by
\* three letters or digits
HasBirthplaceShape(code) ==
    LET c == str_upper(str_strip(code))
    IN  /\ Len(c) = 4
        /\ c[1] \in UpperLetters
        /\ \A i \in 2..4 : c[i] \in UpperLetters \cup DigitChars

\* the digit an omocodia letter stands for, any other character itself
AsDigit(c) ==
    IF c \in Range(OmocodiaLetters) THEN ASCII_DIGITS[IndexOf(OmocodiaLetters, c)] ELSE c

\* by how much the checksum of a code changes when characters 2-4 of its
\* birthplace code c, the code's 0-based indexes 12, 13, 14, are read as digits
ChecksumShift(c) ==
    (CF_ODD_VALUES[c[2]] - CF_ODD_VALUES[AsDigit(c[2])])
    + (CF_EVEN_VALUES[c[3]] - CF_EVEN_VALUES[AsDigit(c[3])])
    + (CF_ODD_VALUES[c[4]] - CF_ODD_VALUES[AsDigit(c[4])])

\* the check character over the birthplace code as written is the one over
\* the code with its omocodia letters read as digits
CheckCharacterUnmoved(code) == (ChecksumShift(str_upper(str_strip(code))) + 78) % 26 = 0

\* no character 2-4 of the trimmed, upper-case birthplace code is an omocodia letter
NoOmocodiaLetter(code) ==
    \A i \in 2..4 : str_upper(str_strip(code))[i] \notin Range(OmocodiaLetters)

\* the records whose generated code validates to the record
RoundTrips(record) ==
    /\ BirthYearResolves(record)
    /\ HasBirthplaceShape(record.birth_place_code)
    /\ CheckCharacterUnmoved(record.birth_place_code)

IsRoundTrip == IsCfValidation /\ prev.op = "generate_codice_fiscale"

RoundTripHolds ==
    /\ outcome.exc = "none"
    /\ outcome.val.is_valid
    /\ outcome.val.birthdate = Some(prev.args.birthdate)
    /\ outcome.val.gender = Some(prev.args.gender)

\* C1 as claimed (refuted): for every record generate accepts, with any calendar
\* birthdate and any 4-character birthplace code, validating the generated code
\* succeeds and decodes the record's birthdate and gender.
C1_RoundTripOfEveryRecord == IsRoundTrip => RoundTripHolds

\* C1 as amended: for a record generate accepts, validating the generated code
\* succeeds and decodes the record's birthdate and gender exactly when the
\* birthplace code is a letter followed by three letters or digits, the birth
\* year is the year the century rule resolves from its last two digits in the
\* current year, and the check character generate computes over the code as
\* written is the one the validator computes after omocodia decoding; the
\* last is so whenever no character 2-4 of the birthplace code is one of
\* L,M,N,P,Q,R,S,T,U,V.
C1_RoundTripWithinCentury ==
    IsRoundTrip =>
        /\ RoundTripHolds <=> RoundTrips(prev.args)
        /\ (HasBirthplaceShape(prev.args.birth_place_code) /\ NoOmocodiaLetter(prev.args.birth_place_code))
              => CheckCharacterUnmoved(prev.args.birth_place_code)

\* a female record whose birthplace code is four lower-case letters, generated
\* and validated
C1_Witness ==
    /\ IsRoundTrip
    /\ RoundTrips(prev.args)
    /\ prev.args.gender = "F"
    /\ prev.args.birthdate.day = 31
    /\ prev.args.birth_place_code = << "h", "a", "b", "c" >>
    /\ RoundTripHolds

----------------------------------------------------------------------------
(* C2 *)

CfErrorCodes ==
    { "tax_id_cf_invalid_format", "tax_id_cf_cannot_decode_birthdate", "tax_id_cf_underage" }

CfResultFields ==
    { "is_valid", "error_code", "formatted_value", "birthdate", "age", "gender",
      "birth_place_code", "birth_place_name", "birth_place_province", "is_foreign_born" }

\* C2: validate never raises; it returns a CodiceFiscaleValidationResult, and a
\* failure is is_valid = false with one of the three error codes.
C2_ValidateIsTotal ==
    IsCfValidation =>
        /\ outcome.exc = "none"
        /\ DOMAIN outcome.val = CfResultFields
        /\ outcome.val.is_valid \in BOOLEAN
        /\ ~outcome.val.is_valid =>
              \E e \in CfErrorCodes : outcome.val.error_code = Some(e)

\* a value with the right check character whose year field is no number:
\* int() raised inside the call, and the call returned
C2_Witness ==
    /\ IsCfValidation
    /\ HasCfShape(str_upper(args.value))
    /\ ~HasTwoDigits(str_upper(args.value), 7)
    /\ outcome.exc = "none"
    /\ outcome.val.error_code = Some("tax_id_cf_cannot_decode_birthdate")

----------------------------------------------------------------------------
(* C3 *)

PivaErrorCodes == { "tax_id_piva_invalid_length", "tax_id_piva_invalid_check_digit" }

\* C3 (refuted by the code): PartitaIvaValidator.validate never raises, also on
\* characters that str.isdigit keeps and that are not 0-9; a failure is
\* is_valid = false with one of the two error codes.
C3_PivaValidateNeverRaises ==
    op = "validate_partita_iva" =>
        /\ outcome.exc = "none"
        /\ ~outcome.val.is_valid =>
              \E e \in PivaErrorCodes : outcome.val.error_code = Some(e)

----------------------------------------------------------------------------
(* C4 *)

\* the second call is the first call with its value in normal form
IsNormalFormOfFirst ==
    /\ IsSecondCfValidation
    /\ args.value = normal_form(prev.args.value)
    /\ args.check_adult = prev.args.check_adult
    /\ args.minimum_age = prev.args.minimum_age

\* C4 (refuted by the code): validate(s) returns the same result as validate of
\* s in upper case with every whitespace character, leading, trailing or
\* embedded, removed, the two calls made on one date.
C4_SameResultAsNormalForm == (IsNormalFormOfFirst /\ OnOneDate) => outcome = prev.outcome

----------------------------------------------------------------------------
(* C5 *)

\* the second call's value is the code the first call accepted with another
\* letter as its 16th character
IsOtherCheckCharacterOfAccepted ==
    /\ IsSecondCfValidation
    /\ prev.outcome.exc = "none"
    /\ prev.outcome.val.is_valid
    /\ LET accepted == prev.outcome.val.formatted_value[1]
       IN  /\ Len(args.value) = 16
           /\ SubSeq(args.value, 1, 15) = SubSeq(accepted, 1, 15)
           /\ args.value[16] \in UpperLetters \ { accepted[16] }

\* C5: an accepted code with only its 16th character replaced by another
\* letter is rejected with tax_id_cf_invalid_format.
C5_OtherCheckCharacterRejected ==
    IsOtherCheckCharacterOfAccepted =>
        /\ outcome.exc = "none"
        /\ ~outcome.val.is_valid
        /\ outcome.val.error_code = Some("tax_id_cf_invalid_format")

\* a code with omocodia letters was accepted, and is rejected with another check character
C5_Witness ==
    /\ IsOtherCheckCharacterOfAccepted
    /\ \E i \in 13..15 : args.value[i] \in Range(OmocodiaLetters)
    /\ outcome.exc = "none"
    /\ outcome.val.error_code = Some("tax_id_cf_invalid_format")

----------------------------------------------------------------------------
(* C6 *)

\* 0-based positions of v, among the seven, that hold a digit
DigitBearing(v) == { p \in { 6, 7, 9, 10, 12, 13, 14 } : v[p + 1] \in DigitChars }

\* v with the digits at the positions written as omocodia letters
WithLetters(v, positions) ==
    [ i \in 1..Len(v) |->
        IF (i - 1) \in positions THEN OmocodiaLetters[DigitValue(v[i]) + 1] ELSE v[i] ]

\* the positions at which the second call's value has the letter of the digit
\* of the code the first call accepted
SubstitutedPositions ==
    { p \in DigitBearing(prev.outcome.val.formatted_value[1]) :
        args.value[p + 1] # prev.outcome.val.formatted_value[1][p + 1] }

IsOmocodiaVariantOfAccepted ==
    /\ IsSecondCfValidation
    /\ prev.outcome.exc = "none"
    /\ prev.outcome.val.is_valid
    /\ Len(args.value) = 16
    /\ SubstitutedPositions # {}
    /\ args.value = WithLetters(prev.outcome.val.formatted_value[1], SubstitutedPositions)

\* C6: an accepted code with any of its digits at positions 6,7,9,10,12,13,14
\* written as omocodia letters, the check character kept, is accepted and
\* decodes to the same gender and, the two calls made on one date, to the same
\* birthdate.
C6_OmocodiaVariantAccepted ==
    IsOmocodiaVariantOfAccepted =>
        /\ outcome.exc = "none"
        /\ outcome.val.is_valid
        /\ OnOneDate => outcome.val.birthdate = prev.outcome.val.birthdate
        /\ outcome.val.gender = prev.outcome.val.gender

\* all seven positions substituted at once, in a code of 29 February 2000
C6_Witness ==
    /\ IsOmocodiaVariantOfAccepted
    /\ SubstitutedPositions = { 6, 7, 9, 10, 12, 13, 14 }
    /\ outcome.exc = "none"
    /\ outcome.val.is_valid
    /\ outcome.val.birthdate = Some(Date(2000, 2, 29))

----------------------------------------------------------------------------
(* C7 *)

\* C7: a cleaned value that has not the shape is rejected with
\* tax_id_cf_invalid_format and none of the decoded fields.
C7_ShapelessIsInvalidFormat ==
    IsCfValidation =>
        /\ outcome.exc = "none"
        /\ ~HasCfShape(outcome.val.formatted_value[1]) =>
              /\ ~outcome.val.is_valid
              /\ outcome.val.error_code = Some("tax_id_cf_invalid_format")
              /\ NoFieldsDecoded(outcome.val)

\* 16 characters with a digit for the month and the check character of that
\* string: only the shape is wrong
C7_Witness ==
    /\ IsCfValidation
    /\ outcome.exc = "none"
    /\ Len(outcome.val.formatted_value[1]) = 16
    /\ outcome.val.formatted_value[1][9] \in DigitChars
    /\ outcome.val.formatted_value[1] = with_check_character(SubSeq(outcome.val.formatted_value[1], 1, 15))
    /\ outcome.val.error_code = Some("tax_id_cf_invalid_format")

----------------------------------------------------------------------------
(* C8 *)

\* C8: a value that has the shape passes the checksum step exactly when its
\* 16th character is chr('A' + S mod 26); otherwise the error code is
\* tax_id_cf_invalid_format.
C8_ChecksumStep ==
    IsCfValidation =>
        /\ outcome.exc = "none"
        /\ HasCfShape(outcome.val.formatted_value[1]) =>
              (outcome.val.error_code # Some("tax_id_cf_invalid_format")
                  <=> outcome.val.formatted_value[1][16] = CheckLetter(outcome.val.formatted_value[1]))

\* a value with omocodia letters in the day and the birthplace passed the step
C8_Witness ==
    /\ IsCfValidation
    /\ outcome.exc = "none"
    /\ HasCfShape(outcome.val.formatted_value[1])
    /\ outcome.val.formatted_value[1][11] \in Range(OmocodiaLetters)
    /\ outcome.val.formatted_value[1][15] \in Range(OmocodiaLetters)
    /\ outcome.val.formatted_value[1][16] = CheckLetter(outcome.val.formatted_value[1])
    /\ outcome.val.is_valid

----------------------------------------------------------------------------
(* C9 *)

\* C9: the birth year of every code whose birthdate decodes is 1900 + v when
\* v > Y mod 100 and (Y div 100) * 100 + v otherwise, v the decoded two-digit
\* year and Y the current year; in 2025, 30 is 1930 and 10 is 2010.
C9_CenturyResolution ==
    (IsCfValidation /\ outcome.exc = "none" /\ outcome.val.birthdate # None) =>
        LET v == TwoDigits(outcome.val.formatted_value[1], 7)
            Y == CurrentYear
            year == outcome.val.birthdate[1].year
        IN  /\ v > Y % 100 => year = 1900 + v
            /\ v <= Y % 100 => year = (Y \div 100) * 100 + v
            /\ (Y = 2025 /\ v = 30) => year = 1930
            /\ (Y = 2025 /\ v = 10) => year = 2010

\* an accepted code whose year field is the current year's last two digits
C9_Witness ==
    /\ IsCfValidation
    /\ outcome.exc = "none"
    /\ outcome.val.is_valid
    /\ TwoDigits(outcome.val.formatted_value[1], 7) = CurrentYear % 100
    /\ outcome.val.birthdate[1].year = CurrentYear

----------------------------------------------------------------------------
(* C10 *)

\* C10: tax_id_cf_cannot_decode_birthdate is returned exactly for the values
\* that have the shape and the right check character and whose date fields do
\* not decode, and such a result carries none of the decoded fields.
C10_CannotDecodeBirthdate ==
    IsCfValidation =>
        /\ outcome.exc = "none"
        /\ outcome.val.error_code = Some("tax_id_cf_cannot_decode_birthdate")
              <=> /\ HasCfShape(outcome.val.formatted_value[1])
                  /\ outcome.val.formatted_value[1][16] = CheckLetter(outcome.val.formatted_value[1])
                  /\ ~DateFieldsDecode(outcome.val.formatted_value[1], CurrentYear)
        /\ outcome.val.error_code = Some("tax_id_cf_cannot_decode_birthdate")
              => ~outcome.val.is_valid /\ NoFieldsDecoded(outcome.val)

\* 29 February of a year that is no leap year
C10_Witness ==
    /\ IsCfValidation
    /\ outcome.exc = "none"
    /\ HasCfShape(outcome.val.formatted_value[1])
    /\ outcome.val.formatted_value[1][9] = "B"
    /\ HasTwoDigits(outcome.val.formatted_value[1], 7)
    /\ HasTwoDigits(outcome.val.formatted_value[1], 10)
    /\ TwoDigits(outcome.val.formatted_value[1], 10) = 69
    /\ outcome.val.error_code = Some("tax_id_cf_cannot_decode_birthdate")

----------------------------------------------------------------------------
(* C11 *)

\* C11: for every code whose birthdate decodes, d the decoded two-digit day
\* field: the gender is F and the birth day d - 40 when d > 40, the gender is M
\* and the birth day d otherwise; the birth month is the place of character 8
\* in the month letters A,B,C,D,E,H,L,M,P,R,S,T.
C11_DayAndSexDecoding ==
    (IsCfValidation /\ outcome.exc = "none" /\ outcome.val.birthdate # None) =>
        LET d == TwoDigits(outcome.val.formatted_value[1], 10)
            birthdate == outcome.val.birthdate[1]
        IN  /\ d > 40 => outcome.val.gender = Some("F") /\ birthdate.day = d - 40
            /\ d <= 40 => outcome.val.gender = Some("M") /\ birthdate.day = d
            /\ birthdate.month = IndexOf(MonthLetters, outcome.val.formatted_value[1][9])

\* an accepted code of a female born on the 31st of December
C11_Witness ==
    /\ IsCfValidation
    /\ outcome.exc = "none"
    /\ outcome.val.is_valid
    /\ TwoDigits(outcome.val.formatted_value[1], 10) = 71
    /\ outcome.val.formatted_value[1][9] = "T"
    /\ outcome.val.gender = Some("F")
    /\ outcome.val.birthdate[1].day = 31
    /\ outcome.val.birthdate[1].month = 12

----------------------------------------------------------------------------
(* C12 *)

\* the current (month, day) is strictly before the (month, day) of the birthdate
BeforeBirthdayThisYear(birthdate) ==
    \/ today.month < birthdate.month
    \/ today.month = birthdate.month /\ today.day < birthdate.day

\* C12: for every code whose birthdate decodes, the age is the current year
\* minus the birth year, minus 1 when the current (month, day) is strictly
\* before the birth (month, day) and minus 0 otherwise, the birthday included.
C12_AgeComputation ==
    (IsCfValidation /\ outcome.exc = "none" /\ outcome.val.birthdate # None) =>
        LET birthdate == outcome.val.birthdate[1]
        IN  /\ outcome.val.age # None
            /\ BeforeBirthdayThisYear(birthdate) =>
                  outcome.val.age[1] = today.year - birthdate.year - 1
            /\ ~BeforeBirthdayThisYear(birthdate) =>
                  outcome.val.age[1] = today.year - birthdate.year

\* validated on the 40th birthday
C12_Witness ==
    /\ IsCfValidation
    /\ outcome.exc = "none"
    /\ outcome.val.birthdate # None
    /\ outcome.val.birthdate[1].month = today.month
    /\ outcome.val.birthdate[1].day = today.day
    /\ outcome.val.birthdate[1].year = today.year - 40
    /\ outcome.val.age = Some(40)

----------------------------------------------------------------------------
(* C13 *)

\* the value has the shape and the right check character, and its date fields decode
PassesUpToDecoding(v) ==
    /\ HasCfShape(v)
    /\ v[16] = CheckLetter(v)
    /\ DateFieldsDecode(v, CurrentYear)

DecodedFields ==
    { "formatted_value", "birthdate", "age", "gender", "birth_place_code",
      "birth_place_name", "birth_place_province", "is_foreign_born" }

IsUnderage(result) == result.error_code = Some("tax_id_cf_underage")

\* the second call validates the first call's value without the age check
IsSameValueWithoutAgeCheck ==
    /\ IsSecondCfValidation
    /\ args.value = prev.args.value
    /\ ~args.check_adult
    /\ prev.outcome.exc = "none"

\* C13: a code that passes format, checksum and birthdate decoding is rejected
\* with tax_id_cf_underage exactly when check_adult is true and age <
\* minimum_age, and is accepted otherwise; no other value gets that error code;
\* with check_adult false the minimum_age changes nothing; the underage result
\* carries the decoded fields with the values the accepted result carries, the
\* two calls made on one date.
C13_MinimumAgeCheck ==
    /\ IsCfValidation =>
          /\ outcome.exc = "none"
          /\ IsUnderage(outcome.val) => PassesUpToDecoding(outcome.val.formatted_value[1])
          /\ PassesUpToDecoding(outcome.val.formatted_value[1]) =>
                /\ outcome.val.age # None
                /\ IsUnderage(outcome.val)
                      <=> (args.check_adult /\ outcome.val.age[1] < args.minimum_age)
                /\ ~IsUnderage(outcome.val) => outcome.val.is_valid /\ outcome.val.error_code = None
                /\ IsUnderage(outcome.val) => ~outcome.val.is_valid
    /\ (IsSameValueWithoutAgeCheck /\ ~prev.args.check_adult /\ OnOneDate) => outcome = prev.outcome
    /\ (IsSameValueWithoutAgeCheck /\ IsUnderage(prev.outcome.val)) =>
          /\ outcome.exc = "none"
          /\ outcome.val.is_valid
          /\ OnOneDate => \A f \in DecodedFields : prev.outcome.val[f] = outcome.val[f]
          /\ \A f \in DecodedFields \ { "birth_place_name", "birth_place_province" } :
                prev.outcome.val[f] # None

\* aged 39 against a minimum of 40: rejected, then accepted without the age
\* check with the same decoded fields, born abroad
C13_Witness ==
    /\ IsSameValueWithoutAgeCheck
    /\ IsUnderage(prev.outcome.val)
    /\ prev.args.minimum_age = 40
    /\ prev.outcome.val.age = Some(39)
    /\ prev.outcome.val.is_foreign_born = Some(TRUE)
    /\ outcome.val.is_valid
    /\ outcome.val.age = Some(39)

----------------------------------------------------------------------------
(* C14 *)

\* the entries of the directory for the code
DirectoryEntries(code) == { i \in DOMAIN CODICI_CATASTALI : CODICI_CATASTALI[i][1] = code }

\* C14: for every code whose birthdate decodes, birth_place_code is characters
\* 11-14 of the cleaned value; birth_place_name and birth_place_province are
\* the directory's entry for it, or both None when the directory has none;
\* is_foreign_born is true exactly when the first character is Z.
C14_BirthplaceResolution ==
    (IsCfValidation /\ outcome.exc = "none" /\ outcome.val.birthdate # None) =>
        LET code == SubSeq(outcome.val.formatted_value[1], 12, 15)
        IN  /\ outcome.val.birth_place_code = Some(code)
            /\ \A i \in DirectoryEntries(code) :
                  /\ outcome.val.birth_place_name = Some(CODICI_CATASTALI[i][2])
                  /\ outcome.val.birth_place_province = Some(CODICI_CATASTALI[i][3])
            /\ DirectoryEntries(code) = {} =>
                  /\ outcome.val.birth_place_name = None
                  /\ outcome.val.birth_place_province = None
            /\ outcome.val.is_foreign_born = Some(code[1] = "Z")

\* an accepted code of a foreign country the directory does not have
C14_Witness ==
    /\ IsCfValidation
    /\ outcome.exc = "none"
    /\ outcome.val.is_valid
    /\ outcome.val.birth_place_code = Some(<< "Z", "N", "P", "Q" >>)
    /\ outcome.val.birth_place_name = None
    /\ outcome.val.is_foreign_born = Some(TRUE)

----------------------------------------------------------------------------
(* C15 *)

\* empty, or whitespace only
IsBlank(s) == \A i \in 1..Len(s) : s[i] \in WhitespaceChars

\* the length of s without its leading and trailing whitespace
TrimmedLen(s) ==
    IF IsBlank(s) THEN 0
    ELSE LET inked == { i \in 1..Len(s) : s[i] \notin WhitespaceChars }
             first == CHOOSE i \in inked : \A j \in inked : i <= j
             last == CHOOSE i \in inked : \A j \in inked : j <= i
         IN  last - first + 1

\* the first of the four input checks the record fails, "" when it fails none
FirstInvalidInput(record) ==
    IF IsBlank(record.surname) THEN "cf_gen_invalid_surname"
    ELSE IF IsBlank(record.name) THEN "cf_gen_invalid_name"
    ELSE IF record.gender \notin { "M", "F" } THEN "cf_gen_invalid_gender"
    ELSE IF TrimmedLen(record.birth_place_code) # 4 THEN "cf_gen_invalid_birth_place_code"
    ELSE ""

GenInputErrorCodes ==
    { "cf_gen_invalid_surname", "cf_gen_invalid_name", "cf_gen_invalid_gender",
      "cf_gen_invalid_birth_place_code" }

IsGeneration == op = "generate_codice_fiscale"

\* C15: generate rejects a blank surname with cf_gen_invalid_surname, a blank
\* name with cf_gen_invalid_name, a gender outside {M,F} with
\* cf_gen_invalid_gender and a birthplace code whose trimmed length is not 4
\* with cf_gen_invalid_birth_place_code; of several invalid inputs the first in
\* that order is reported, no code is produced, and a record with none of
\* them gets none of these error codes.
C15_GenerateInputValidation ==
    IsGeneration =>
        /\ outcome.exc = "none"
        /\ FirstInvalidInput(args) # "" =>
              /\ ~outcome.val.is_valid
              /\ outcome.val.error_code = Some(FirstInvalidInput(args))
              /\ outcome.val.codice_fiscale = None
        /\ FirstInvalidInput(args) = "" =>
              \A e \in GenInputErrorCodes : outcome.val.error_code # Some(e)

\* all four inputs invalid: the surname is reported
C15_Witness ==
    /\ IsGeneration
    /\ args.surname = << "\t", "\n" >>
    /\ IsBlank(args.name)
    /\ args.gender = "m"
    /\ args.birth_place_code = << "H","5","0" >>
    /\ outcome.exc = "none"
    /\ outcome.val.error_code = Some("cf_gen_invalid_surname")

----------------------------------------------------------------------------
(* C16 *)

VowelLetters == { "A", "E", "I", "O", "U" }

ConsonantLetters == UpperLetters \ VowelLetters

IsConsonantLetter(c) == c \in ConsonantLetters

IsVowelLetter(c) == c \in VowelLetters

\* the consonants of s in upper case, in order
ConsonantsOf(s) == SelectSeq(str_upper(s), IsConsonantLetter)

\* the vowels of s in upper case, in order
VowelsOf(s) == SelectSeq(str_upper(s), IsVowelLetter)

\* consonants, then vowels, then X, cut to 3 characters
ConsonantsVowelsX(s) == SubSeq(ConsonantsOf(s) \o VowelsOf(s) \o << "X", "X", "X" >>, 1, 3)

\* C16: _encode_surname returns exactly 3 characters for every surname: its
\* first 3 consonants in order, then, with fewer than 3 consonants, its vowels
\* in order of appearance, then X to fill (letters A-Z, the rest dropped).
C16_SurnameCode ==
    op = "_encode_surname" =>
        /\ outcome.exc = "none"
        /\ Len(outcome.val) = 3
        /\ outcome.val = ConsonantsVowelsX(args.surname)

\* one consonant after a vowel and an apostrophe: consonant, vowel, X
C16_Witness ==
    /\ op = "_encode_surname"
    /\ Len(args.surname) = 3
    /\ args.surname[1] \in { "a", "O" }
    /\ args.surname[2] = "'"
    /\ args.surname[3] = "r"
    /\ outcome.val = << "R", char_upper(args.surname[1]), "X" >>

----------------------------------------------------------------------------
(* C17 *)

\* C17: _encode_name returns exactly 3 characters for every given name: the
\* 1st, 3rd and 4th consonant when it has 4 or more consonants, and consonants,
\* then vowels, then X as for a surname when it has 3 or fewer.
C17_GivenNameCode ==
    op = "_encode_name" =>
        /\ outcome.exc = "none"
        /\ Len(outcome.val) = 3
        /\ Len(ConsonantsOf(args.name)) >= 4 =>
              outcome.val = << ConsonantsOf(args.name)[1], ConsonantsOf(args.name)[3],
                               ConsonantsOf(args.name)[4] >>
        /\ Len(ConsonantsOf(args.name)) <= 3 =>
              outcome.val = ConsonantsVowelsX(args.name)

\* four consonants, the second unlike the third: the second is skipped
C17_Witness ==
    /\ op = "_encode_name"
    /\ Len(ConsonantsOf(args.name)) = 4
    /\ ConsonantsOf(args.name)[2] # ConsonantsOf(args.name)[3]
    /\ ConsonantsOf(args.name)[2] # ConsonantsOf(args.name)[4]
    /\ outcome.val = << ConsonantsOf(args.name)[1], ConsonantsOf(args.name)[3],
                        ConsonantsOf(args.name)[4] >>

----------------------------------------------------------------------------
(* C18 *)

\* n mod 100 as two decimal digits
TwoDigitString(n) == << ASCII_DIGITS[((n % 100) \div 10) + 1], ASCII_DIGITS[(n % 10) + 1] >>

IsGenerated == IsGeneration /\ outcome.exc = "none" /\ outcome.val.is_valid

\* C18 (refuted by the code): the code generated for any accepted record, birth
\* years below 10 and below 1000 included, has exactly 16 characters, of which
\* characters 6-7 are the last two digits of the birth year padded with zeros,
\* character 8 the month letter, and characters 9-10 the birth day, plus 40
\* for gender F, padded with zeros.
C18_DateFieldEncoding ==
    IsGenerated =>
        /\ Len(outcome.val.codice_fiscale[1]) = 16
        /\ SubSeq(outcome.val.codice_fiscale[1], 7, 8) = TwoDigitString(args.birthdate.year)
        /\ outcome.val.codice_fiscale[1][9] = MonthLetters[args.birthdate.month]
        /\ SubSeq(outcome.val.codice_fiscale[1], 10, 11)
              = TwoDigitString(args.birthdate.day + (IF args.gender = "F" THEN 40 ELSE 0))

----------------------------------------------------------------------------
(* C19 *)

\* C19 (refuted by the code): the check character generate appends to a
\* 15-character prefix it assembles, with any 4-character birthplace code, is
\* the check character the validator's checksum step expects for that prefix.
C19_SameCheckCharacter ==
    (IsGenerated /\ Len(outcome.val.codice_fiscale[1]) = 16) =>
        CodiceFiscaleValidator_validate_check_digit(outcome.val.codice_fiscale[1]) = Return(TRUE)

----------------------------------------------------------------------------
(* C20 *)

IsDecimalDigit(c) == c \in DigitChars

\* the decimal digits of s, in order
DecimalDigitsOf(s) == SelectSeq(s, IsDecimalDigit)

\* C20 (refuted by the code): whenever PartitaIvaValidator.validate returns,
\* formatted_value is the decimal digits of the input and nothing else, the
\* result is tax_id_piva_invalid_length whenever these are not exactly 11, the
\* empty input included, and a value with 11 of them is never reported as
\* tax_id_piva_invalid_length.
C20_PivaDigitsAndLength ==
    (op = "validate_partita_iva" /\ outcome.exc = "none") =>
        /\ outcome.val.formatted_value = Some(DecimalDigitsOf(args.value))
        /\ Len(DecimalDigitsOf(args.value)) # 11 =>
              /\ ~outcome.val.is_valid
              /\ outcome.val.error_code = Some("tax_id_piva_invalid_length")
        /\ Len(DecimalDigitsOf(args.value)) = 11 =>
              outcome.val.error_code # Some("tax_id_piva_invalid_length")

----------------------------------------------------------------------------
(* C21 *)

IsPivaValidation == op = "validate_partita_iva"

\* exactly 11 decimal digits
IsElevenDigits(v) == Len(v) = 11 /\ \A i \in 1..11 : v[i] \in DigitChars

\* what the digit d adds at the 0-based position: itself at an even position,
\* the sum of the digits of its double at an odd one
LuhnTerm(position, d) ==
    IF position % 2 = 0 THEN d ELSE ((2 * d) \div 10) + ((2 * d) % 10)

RECURSIVE LuhnSum(_, _)
\* T over the 0-based positions 0..n-1 of v
LuhnSum(v, n) ==
    IF n = 0 THEN 0 ELSE LuhnSum(v, n - 1) + LuhnTerm(n - 1, DigitValue(v[n]))

\* C21: validate accepts a string of 11 digits exactly when T mod 10 = 0, T the
\* sum of the digits at even 0-based positions and of the doubled digits, less
\* 9 from 10 on, at odd ones; otherwise the error code is
\* tax_id_piva_invalid_check_digit. 00000000000 and 12345678903 are accepted,
\* 12345678901 is not.
C21_PivaChecksum ==
    (IsPivaValidation /\ IsElevenDigits(args.value)) =>
        /\ outcome.exc = "none"
        /\ outcome.val.is_valid <=> LuhnSum(args.value, 11) % 10 = 0
        /\ ~outcome.val.is_valid =>
              outcome.val.error_code = Some("tax_id_piva_invalid_check_digit")
        /\ args.value = Str10("0","0","0","0","0","0","0","0","0","0") \o << "0" >> =>
              outcome.val.is_valid
        /\ args.value = Str10("1","2","3","4","5","6","7","8","9","0") \o << "3" >> =>
              outcome.val.is_valid
        /\ args.value = Str10("1","2","3","4","5","6","7","8","9","0") \o << "1" >> =>
              ~outcome.val.is_valid

\* 12345678903 is accepted
C21_Witness ==
    /\ IsPivaValidation
    /\ args.value = Str10("1","2","3","4","5","6","7","8","9","0") \o << "3" >>
    /\ LuhnSum(args.value, 11) % 10 = 0
    /\ outcome.exc = "none"
    /\ outcome.val.is_valid

----------------------------------------------------------------------------
(* C22 *)

\* C22: an accepted Partita IVA carries as province_code the 3 digits at the
\* 0-based positions 7-9 of the cleaned value and is_temporary true exactly
\* when the cleaned value starts with 99; a rejected one carries None for both.
C22_PivaDerivedFields ==
    (IsPivaValidation /\ outcome.exc = "none") =>
        /\ outcome.val.is_valid =>
              /\ outcome.val.province_code = Some(SubSeq(outcome.val.formatted_value[1], 8, 10))
              /\ outcome.val.is_temporary
                    = Some(SubSeq(outcome.val.formatted_value[1], 1, 2) = << "9", "9" >>)
        /\ ~outcome.val.is_valid =>
              /\ outcome.val.province_code = None
              /\ outcome.val.is_temporary = None

\* an accepted temporary number written with the prefix IT
C22_Witness ==
    /\ IsPivaValidation
    /\ Len(args.value) = 13
    /\ SubSeq(args.value, 1, 4) = << "I", "T", "9", "9" >>
    /\ outcome.exc = "none"
    /\ outcome.val.is_valid
    /\ outcome.val.is_temporary = Some(TRUE)
    /\ outcome.val.province_code = Some(<< "0", "0", "1" >>)

----------------------------------------------------------------------------
(* C23 *)

\* the name has q somewhere, whatever the case of q's letters
ContainsIgnoringCaseOf(name, q) ==
    \E start \in 1..(Len(name) - Len(q) + 1) :
        \A i \in 1..Len(q) : name[start + i - 1] = char_upper(q[i])

\* the first character at which the names differ decides; a prefix comes first
RECURSIVE NameBefore(_, _)
NameBefore(a, b) ==
    IF a = <<>> \/ b = <<>> THEN a = <<>> /\ b # <<>>
    ELSE IF a[1] # b[1]
    THEN \E i, j \in DOMAIN CODE_POINT_ORDER :
            i < j /\ CODE_POINT_ORDER[i] = a[1] /\ CODE_POINT_ORDER[j] = b[1]
    ELSE NameBefore(Tail(a), Tail(b))

\* C23: search_municipality(q) returns each directory entry whose name
\* contains q, ignoring the case of q, once, as (code, name, province), and
\* nothing else, in ascending order of the names; the empty list when no name
\* contains q.
C23_MunicipalitySearch ==
    op = "search_municipality" =>
        /\ outcome.exc = "none"
        /\ Range(outcome.val)
              = { CODICI_CATASTALI[i] : i \in { j \in DOMAIN CODICI_CATASTALI :
                    ContainsIgnoringCaseOf(CODICI_CATASTALI[j][2], args.partial_name) } }
        /\ \A k \in 1..(Len(outcome.val) - 1) :
              NameBefore(outcome.val[k][2], outcome.val[k + 1][2])
        /\ (\A i \in DOMAIN CODICI_CATASTALI :
               ~ContainsIgnoringCaseOf(CODICI_CATASTALI[i][2], args.partial_name))
              => outcome.val = <<>>

\* a query in mixed case with several results, returned in another order than
\* the directory lists them
C23_Witness ==
    /\ op = "search_municipality"
    /\ args.partial_name = << "S", "a", "n", " " >>
    /\ Len(outcome.val) >= 3
    /\ \E k \in 1..(Len(outcome.val) - 1) :
          \E i, j \in DOMAIN CODICI_CATASTALI :
              /\ j < i
              /\ CODICI_CATASTALI[i] = outcome.val[k]
              /\ CODICI_CATASTALI[j] = outcome.val[k + 1]

----------------------------------------------------------------------------
(* C24 *)

IsCommand(command) == op = "main" /\ args.command = Some(command)

\* the ways strptime reads the number n: two digits, one digit, and for a day
\* a space and one digit
NumberTexts(n, space_padded) ==
    { TwoDigitString(n) }
    \cup (IF n < 10 THEN { << ASCII_DIGITS[n + 1] >> } ELSE {})
    \cup (IF n < 10 /\ space_padded THEN { << " ", ASCII_DIGITS[n + 1] >> } ELSE {})

\* the calendar dates that the text writes as year-month-day
BirthdatesWritten(s) ==
    IF Len(s) < 8 \/ \E i \in 1..4 : ~IsDecimalDigit(s[i]) THEN {}
    ELSE LET y == 1000 * DigitValue(s[1]) + 100 * DigitValue(s[2]) + 10 * DigitValue(s[3]) + DigitValue(s[4])
         IN  { b \in [year : { y } \ { 0 }, month : 1..12, day : 1..31] :
                 /\ b.day <= MonthLength(b.year, b.month)
                 /\ \E m \in NumberTexts(b.month, FALSE), d \in NumberTexts(b.day, TRUE) :
                       s = SubSeq(s, 1, 4) \o << "-" >> \o m \o << "-" >> \o d }

\* the gender the text names, in either case
GendersWritten(s) == { g \in { "M", "F" } : s \in { << g >>, str_lower(<< g >>) } }

\* the birthplace code of the command line: the code given, or else the code
\* of the directory entry with the name given, in any case
BirthplacesResolved(a) ==
    IF a.birth_place_code \notin { None, Some(<<>>) } THEN { a.birth_place_code[1] }
    ELSE IF a.birth_place \in { None, Some(<<>>) } THEN {}
    ELSE { CODICI_CATASTALI[i][1] : i \in { j \in DOMAIN CODICI_CATASTALI :
             /\ Len(CODICI_CATASTALI[j][2]) = Len(a.birth_place[1])
             /\ ContainsIgnoringCaseOf(CODICI_CATASTALI[j][2], a.birth_place[1]) } }

\* the results of the generation that the command line asks for
GenerationResults(a) ==
    { CodiceFiscaleGenerator_generate(a.surname, a.name, b, g, c) :
        b \in BirthdatesWritten(a.birthdate), g \in GendersWritten(a.gender), c \in BirthplacesResolved(a) }

\* C24: main returns 0 for validate-cf and for validate-piva when the
\* validation of the value returns a valid result and 1 when it returns an
\* invalid one; for generate-cf it returns 0 when a code is generated and 1
\* otherwise: when the birthdate cannot be parsed, the gender is not M or F,
\* the birthplace is not resolved, or the generation reports an error.
C24_CliExitCodes ==
    /\ IsCommand("validate-cf") =>
          LET result == CodiceFiscaleValidator_validate(args.value, args.check_adult, args.minimum_age,
                                                        call_date[1], today)
          IN  result.exc = "none" => outcome = Return(IF result.val.is_valid THEN 0 ELSE 1)
    /\ IsCommand("validate-piva") =>
          LET result == PartitaIvaValidator_validate(args.value)
          IN  result.exc = "none" => outcome = Return(IF result.val.is_valid THEN 0 ELSE 1)
    /\ IsCommand("generate-cf") =>
          /\ outcome.exc = "none"
          /\ outcome.val \in { 0, 1 }
          /\ outcome.val = 0 <=> \E r \in GenerationResults(args) : r.exc = "none" /\ r.val.is_valid
          /\ BirthdatesWritten(args.birthdate) = {} => outcome.val = 1
          /\ GendersWritten(args.gender) = {} => outcome.val = 1
          /\ BirthplacesResolved(args) = {} => outcome.val = 1

\* a code is generated for a birthplace given by its name in lower case
C24_Witness ==
    /\ IsCommand("generate-cf")
    /\ args.birth_place_code = None
    /\ args.birth_place = Some(<< "r", "o", "m", "a" >>)
    /\ args.gender = << "m" >>
    /\ outcome = Return(0)

----------------------------------------------------------------------------
(* C25 *)

\* the whole years from the birthdate to the date d
YearsBetween(birthdate, d) ==
    IF d.month < birthdate.month \/ (d.month = birthdate.month /\ d.day < birthdate.day)
    THEN d.year - birthdate.year - 1
    ELSE d.year - birthdate.year

\* what validating a well-formed code of a listed birthplace returns when
\* date.today() returns dates[1] and then dates[2]
ValidationOn(call, dates) ==
    LET v == call.value
        dd == TwoDigits(v, 10)
        birthdate == Date(ResolvedYear(TwoDigits(v, 7), dates[1].year), IndexOf(MonthLetters, v[9]),
                          IF dd > 40 THEN dd - 40 ELSE dd)
        age == YearsBetween(birthdate, dates[2])
        underage == call.check_adult /\ age < call.minimum_age
        place == CHOOSE i \in DOMAIN CODICI_CATASTALI : CODICI_CATASTALI[i][1] = SubSeq(v, 12, 15)
    IN  [is_valid |-> ~underage,
         error_code |-> IF underage THEN Some("tax_id_cf_underage") ELSE None,
         formatted_value |-> Some(v),
         birthdate |-> Some(birthdate),
         age |-> Some(age),
         gender |-> Some(IF dd > 40 THEN "F" ELSE "M"),
         birth_place_code |-> Some(SubSeq(v, 12, 15)),
         birth_place_name |-> Some(CODICI_CATASTALI[place][2]),
         birth_place_province |-> Some(CODICI_CATASTALI[place][3]),
         is_foreign_born |-> Some(v[12] = "Z")]

\* what a call made alone returns: the validation of the code on the dates
\* read, the valid P.IVA 12345678903 of office 890, the code RSSMRA85M01H501Q
\* of Mario Rossi
ReturnedAlone(call, dates) ==
    IF call.function = "validate_codice_fiscale" THEN ValidationOn(call, dates)
    ELSE IF call.function = "validate_partita_iva"
    THEN [is_valid |-> TRUE, error_code |-> None, formatted_value |-> Some(call.value),
          is_temporary |-> Some(FALSE), province_code |-> Some(<< "8", "9", "0" >>)]
    ELSE [is_valid |-> TRUE, error_code |-> None,
          codice_fiscale |-> Some(<< "R","S","S","M","R","A","8","5","M","0","1","H","5","0","1","Q" >>)]

\* C25: however the steps of concurrent calls of validate_codice_fiscale,
\* validate_partita_iva and generate_codice_fiscale interleave with each other
\* and with the passing of midnight, first calls that race to create the
\* shared instance included, the instance a call obtains is not null, and the
\* call returns what a call with the same arguments returns alone on the
\* dates that date.today() returned to it: nothing of another call enters it.
C25_NoConcurrencyHazard ==
    \A t \in Threads :
        /\ threads[t].pc \in { "call", "age", "returned" } => threads[t].instance # None
        /\ threads[t].pc = "returned" =>
              threads[t].outcome = Return(ReturnedAlone(threads[t].call[1], threads[t].dates))

\* two first calls of validate_codice_fiscale raced: both found no instance;
\* one has created it, read 2025-12-31 for the century while the other thread
\* was in its call, read 2026-01-01 for the age and returned the age 100; the
\* other is about to create the instance again
C25_Witness ==
    \E t, u \in Threads :
        /\ t # u
        /\ threads[t].pc = "returned"
        /\ threads[t].dates = << Date(2025, 12, 31), Date(2026, 1, 1) >>
        /\ threads[t].outcome.val.is_valid
        /\ threads[t].outcome.val.birthdate = Some(Date(1926, 1, 1))
        /\ threads[t].outcome.val.age = Some(100)
        /\ threads[u].pc = "create"
        /\ threads[u].call[1].function = "validate_codice_fiscale"

----------------------------------------------------------------------------
(* C26 *)

IsResult ==
    /\ op \in { "validate_codice_fiscale", "validate_partita_iva", "generate_codice_fiscale" }
    /\ outcome.exc = "none"

\* C26: in every result that validate_codice_fiscale, validate_partita_iva
\* and generate_codice_fiscale return, is_valid is true exactly when
\* error_code is None; a validation result carries a formatted_value whether
\* it is valid or not; a generation result carries a codice_fiscale exactly
\* when it is valid.
C26_ResultRecords ==
    IsResult =>
        /\ outcome.val.is_valid <=> outcome.val.error_code = None
        /\ op # "generate_codice_fiscale" => outcome.val.formatted_value # None
        /\ op = "generate_codice_fiscale" => (outcome.val.codice_fiscale # None <=> outcome.val.is_valid)

\* a validation that failed, whose result carries the cleaned value, which is
\* not the value as the caller wrote it
C26_Witness ==
    /\ IsResult
    /\ op = "validate_codice_fiscale"
    /\ ~outcome.val.is_valid
    /\ outcome.val.error_code # None
    /\ outcome.val.formatted_value # None
    /\ outcome.val.formatted_value # Some(args.value)

----------------------------------------------------------------------------
(* C27 *)

\* the date a is later in the calendar than the date b
DateAfter(a, b) ==
    \/ a.year > b.year
    \/ a.year = b.year /\ a.month > b.month
    \/ a.year = b.year /\ a.month = b.month /\ a.day > b.day

\* C27 (refuted by the code): whenever validate accepts a code, on any current
\* date, the birthdate it decodes is not later than the current date and the
\* age it reports is at least 0.
C27_BirthdateNotInTheFuture ==
    (IsCfValidation /\ outcome.exc = "none" /\ outcome.val.is_valid) =>
        /\ outcome.val.birthdate # None
        /\ ~DateAfter(outcome.val.birthdate[1], today)
        /\ outcome.val.age # None
        /\ outcome.val.age[1] >= 0

----------------------------------------------------------------------------
(* C28 *)

\* the 0-based positions at which two numbers of one length differ
DifferingPositions(v, w) == { i \in 0..(Len(v) - 1) : v[i + 1] # w[i + 1] }

\* the second of two validations, of eleven digits each, the first of which
\* accepted a number that differs from the second in exactly one digit
IsOneDigitReplacedInAccepted ==
    /\ IsPivaValidation
    /\ prev.op = "validate_partita_iva"
    /\ prev.outcome.exc = "none"
    /\ prev.outcome.val.is_valid
    /\ IsElevenDigits(prev.args.value)
    /\ IsElevenDigits(args.value)
    /\ Cardinality(DifferingPositions(prev.args.value, args.value)) = 1

\* the digit that brings the sum of the ten terms of the prefix to a multiple of 10
CheckDigitFor(v) == ASCII_DIGITS[((10 - (LuhnSum(v, 10) % 10)) % 10) + 1]

\* C28: a valid number of eleven digits in which the digit at any one
\* position 0..10 is replaced by a different digit is rejected with
\* tax_id_piva_invalid_check_digit; and of the ten digits that can follow a
\* ten-digit prefix exactly one, which the prefix determines, makes a valid
\* number.
C28_SingleDigitErrorDetected ==
    /\ IsOneDigitReplacedInAccepted =>
          /\ outcome.exc = "none"
          /\ ~outcome.val.is_valid
          /\ outcome.val.error_code = Some("tax_id_piva_invalid_check_digit")
    /\ (IsPivaValidation /\ IsElevenDigits(args.value)) =>
          /\ outcome.exc = "none"
          /\ outcome.val.is_valid <=> args.value[11] = CheckDigitFor(args.value)

\* a digit that is doubled in the sum (odd 0-based position) was replaced, 0 by 9
\* or 9 by 0, and the number is rejected
C28_Witness ==
    /\ IsOneDigitReplacedInAccepted
    /\ \E i \in DifferingPositions(prev.args.value, args.value) :
          /\ i % 2 = 1
          /\ { prev.args.value[i + 1], args.value[i + 1] } = { "0", "9" }
    /\ outcome.val.error_code = Some("tax_id_piva_invalid_check_digit")

----------------------------------------------------------------------------
(* C29 *)

IsDecodingOf16 == op = "_decode_omocodia" /\ Len(args.cf) = 16

\* C29: _decode_omocodia of 16 characters returns 16 characters; a character
\* at position 6, 7, 9, 10, 12, 13 or 14 that is one of L,M,N,P,Q,R,S,T,U,V is
\* returned as its digit, and every other character, the month letter at
\* position 8, position 11 and the check character among them, is returned as
\* it is; decoding a decoded value returns it unchanged.
C29_DecodingFrame ==
    IsDecodingOf16 =>
        /\ outcome.exc = "none"
        /\ Len(outcome.val) = 16
        /\ \A i \in 0..15 :
              IF i \in { 6, 7, 9, 10, 12, 13, 14 } /\ args.cf[i + 1] \in Range(OmocodiaLetters)
              THEN outcome.val[i + 1] = ASCII_DIGITS[IndexOf(OmocodiaLetters, args.cf[i + 1])]
              ELSE outcome.val[i + 1] = args.cf[i + 1]
        /\ (prev.op = "_decode_omocodia" /\ prev.outcome = Return(args.cf)) => outcome.val = args.cf

\* a value in which the decoding replaced a letter and left the month letter M
\* and an L at position 11 alone, decoded again
C29_Witness ==
    /\ IsDecodingOf16
    /\ prev.op = "_decode_omocodia"
    /\ prev.outcome = Return(args.cf)
    /\ prev.args.cf # args.cf
    /\ args.cf[9] = "M"
    /\ args.cf[12] = "L"
    /\ outcome.val = args.cf

----------------------------------------------------------------------------
(* C30 *)

\* the second call's value is the code the first call accepted and resolved
\* to a directory entry, with digits of the birthplace code written as letters
IsBirthplaceVariantOfResolved ==
    /\ IsOmocodiaVariantOfAccepted
    /\ SubstitutedPositions \subseteq { 12, 13, 14 }
    /\ prev.outcome.val.birth_place_name # None
    /\ prev.outcome.val.birth_place_province # None

\* C30 (refuted by the code): when a code validates with birth_place_name and
\* birth_place_province resolved from the directory, the code with digits at
\* positions 12-14 written as their omocodia letters validates with the same
\* birth_place_name and birth_place_province.
C30_VariantResolvesSameBirthplace ==
    IsBirthplaceVariantOfResolved =>
        /\ outcome.exc = "none"
        /\ outcome.val.is_valid
        /\ outcome.val.birth_place_name = prev.outcome.val.birth_place_name
        /\ outcome.val.birth_place_province = prev.outcome.val.birth_place_province

====
